---- MODULE Spec2Model ----
(***************************************************************************)
(* A model of the subtitle retrieval of youtube-subtitles-mcp:             *)
(* fetchSubtitles and fetchSubtitlesForLanguage of src/scraper/yt-dlp.ts   *)
(* (src/unnamed/part_005).  One behaviour is one call of fetchSubtitles;   *)
(* every await of the function is a step, and the outcomes of the file     *)
(* system, of the HTTP fetch and of the yt-dlp subprocess are chosen by    *)
(* the environment.                                                        *)
(***************************************************************************)
EXTENDS Integers, Sequences, FiniteSets, TLC

VARIABLES
    args,            \* the arguments of the call (paramsOrVideoId, languageCode, options)
    pc,              \* the position of the async function
    videoId,         \* local videoId (a JavaScript value)
    lang,            \* local lang (a JavaScript value)
    useCookies,      \* opts.useCookies
    timeout,         \* const timeout
    languagesToTry,  \* const languagesToTry
    dirExists,       \* whether tempDir exists on disk
    files,           \* the files of tempDir: records [name, cues, origin]
    cookiesPath,     \* let cookiesPath ("" models null)
    lastError,       \* let lastError (NoError models null)
    idx,             \* position of the for..of loop in languagesToTry
    stderr,          \* stderr of the last yt-dlp run
    subtitleFile,    \* fetchSubtitlesForLanguage: const subtitleFile
    subtitles,       \* the list returned by the last fetchSubtitlesForLanguage
    pending,         \* the completion (return or throw) the finally block holds
    outcome,         \* what the caller of fetchSubtitles observes
    log,             \* the external effects of the call, in order
    raw,             \* deduplicateAndFilter: the parameter subtitles
    normalized,      \* deduplicateAndFilter: the list returned
    npc,             \* deduplicateAndFilter: not called, called, returned
    now,             \* concurrent calls: Date.now()
    req,             \* concurrent calls: the position and the locals of each call
    dirs,            \* concurrent calls: the directories under os.tmpdir()
    dfiles,          \* concurrent calls: the files in them: [dir, name, owner]
    toolArgs,        \* tool handler: the arguments of the tool call (videoID, lang)
    tpc,             \* tool handler: the position of the async handler
    fetchCall,       \* tool handler: the arguments it passed to fetchSubtitles
    fetched,         \* tool handler: the completion of that fetchSubtitles call
    response,        \* tool handler: the CallToolResult it returned
    input,           \* text functions: the argument of the function under study
    result,          \* text functions: what it returned or threw
    ppc,             \* text functions: not called, called, returned
    http             \* POST /mcp: the position and the objects of each request

\* the state of one call of fetchSubtitles
fetchVars == <<args, pc, videoId, lang, useCookies, timeout, languagesToTry,
               dirExists, files, cookiesPath, lastError, idx, stderr, subtitleFile,
               subtitles, pending, outcome, log>>

\* the state of one call of deduplicateAndFilter
normVars == <<raw, normalized, npc>>

\* the state of the calls of fetchSubtitles that run at the same time
concVars == <<now, req, dirs, dfiles>>

\* the state of one call of a function on text: cleanSubtitleText, parseVTT, parseSRT,
\* timeToSeconds, formatTime
textVars == <<input, result, ppc>>

\* the state of the POST /mcp requests being served
httpVars == <<http>>

\* the state of one call of the summarize_youtube_video tool
toolVars == <<toolArgs, tpc, fetchCall, fetched, response>>

\* the state a call of fetchSubtitles leaves alone
otherVars == <<normVars, concVars, toolVars, textVars, httpVars>>

vars == <<fetchVars, otherVars>>

(***************************************************************************)
(* Bounds of the model.                                                    *)
(***************************************************************************)
\* the largest number of cues a downloaded subtitle file parses to
MaxCues == 1

(***************************************************************************)
(* JavaScript values: a type tag, the string form and the numeric form.    *)
(***************************************************************************)
Undefined == [type |-> "undefined", val |-> "", num |-> 0]
Null == [type |-> "null", val |-> "", num |-> 0]
Str(s) == [type |-> "string", val |-> s, num |-> 0]
Num(n, s) == [type |-> "number", val |-> s, num |-> n]
Bool(b) == [type |-> "boolean", val |-> IF b THEN "true" ELSE "false", num |-> 0]
Obj == [type |-> "object", val |-> "", num |-> 0]

\* typeof v
TypeOf(v) == IF v.type = "null" THEN "object" ELSE v.type

\* the truthiness of a value (!v is ~Truthy(v))
Truthy(v) ==
    CASE v.type = "string" -> v.val # ""
      [] v.type = "number" -> v.num # 0
      [] v.type = "boolean" -> v.val = "true"
      [] v.type = "object" -> TRUE
      [] OTHER -> FALSE

\* a || b
OrElse(a, b) == IF Truthy(a) THEN a ELSE b

\* a ?? b
Coalesce(a, b) == IF a.type \in {"undefined", "null"} THEN b ELSE a

(***************************************************************************)
(* Strings.                                                                *)
(***************************************************************************)
\* s.includes(t)
Includes(s, t) ==
    \E i \in 0..(Len(s) - Len(t)) : SubSeq(s, i + 1, i + Len(t)) = t

\* s.endsWith(t)
EndsWith(s, t) ==
    /\ Len(s) >= Len(t)
    /\ SubSeq(s, Len(s) - Len(t) + 1, Len(s)) = t

\* list.join(sep)
RECURSIVE Join(_, _)
Join(list, sep) ==
    IF Len(list) = 0 THEN ""
    ELSE IF Len(list) = 1 THEN list[1]
    ELSE list[1] \o sep \o Join(Tail(list), sep)

\* path.join(dir, name)
PathJoin(dir, name) == dir \o "/" \o name

(***************************************************************************)
(* Errors and completions.                                                 *)
(***************************************************************************)
NoError ==
    [name |-> "", message |-> "", videoId |-> Undefined, languageCode |-> Undefined]

\* new SubtitleError(message, videoId, languageCode)
SubtitleError(message, vid, lc) ==
    [name |-> "SubtitleError", message |-> message, videoId |-> vid, languageCode |-> lc]

\* an error raised by the platform: child_process, fs, or the engine itself
RawError(name, message) ==
    [name |-> name, message |-> message, videoId |-> Undefined, languageCode |-> Undefined]

NoCompletion == [kind |-> "none", value |-> <<>>, error |-> NoError]
Return(value) == [kind |-> "return", value |-> value, error |-> NoError]
Throw(error) == [kind |-> "throw", value |-> <<>>, error |-> error]

(***************************************************************************)
(* The calls of fetchSubtitles the model draws from.                       *)
(***************************************************************************)
NoOptions == [timeout |-> Undefined, useCookies |-> Undefined]
NoParams == [videoID |-> Undefined, lang |-> Undefined, timeout |-> Undefined,
             useCookies |-> Undefined]

\* fetchSubtitles(videoId, languageCode, options)
PositionalCalls ==
    { [p |-> v, obj |-> NoParams, languageCode |-> l,
       options |-> [timeout |-> t, useCookies |-> c]] :
        v \in {Undefined, Str(""), Num(42, "42"), Str("hi9")},
        l \in {Undefined, Str(""), Str("hi")},
        t \in {Undefined},
        c \in {Undefined, Bool(FALSE)} }

\* fetchSubtitles({videoID, lang, timeout, useCookies})
ObjectCalls ==
    { [p |-> Obj, obj |-> [videoID |-> v, lang |-> l, timeout |-> t, useCookies |-> c],
       languageCode |-> Undefined, options |-> NoOptions] :
        v \in {Undefined, Null, Str("v1")},
        l \in {Undefined, Str("xx")},
        t \in {Undefined, Num(5000, "5000")},
        c \in {Undefined, Bool(FALSE)} }

\* fetchSubtitles(null)
NullCalls ==
    { [p |-> Null, obj |-> NoParams, languageCode |-> Undefined, options |-> NoOptions] }

Calls == PositionalCalls \cup ObjectCalls \cup NullCalls

(***************************************************************************)
(* Constants of the program.                                               *)
(***************************************************************************)
\* const timeout = opts.timeout || 30000
DefaultTimeout == 30000

\* os.tmpdir() joined with the generated directory name
TempDir == "/tmp/yt-subs-1"

\* the diagnostic outputs of a yt-dlp run that exits with status 0
StderrSamples ==
    {"", "ERROR: Private video", "ERROR: Video unavailable",
     "sh: yt-dlp: No such file or directory"}

SubtitleExtensions == {"vtt", "srt"}

(***************************************************************************)
(* fetchSubtitles: the values computed before the try block.               *)
(***************************************************************************)
\* const languagesToTry = lang ? [lang] : ["en", "hi"]
LanguagesToTryReversed(l) == IF Truthy(l) THEN <<l.val>> ELSE <<"hi", "en">>
LanguagesToTry(l) == IF Truthy(l) THEN <<l.val>> ELSE <<"en", "hi">>

\* the parameter unpacking of lines 112-127
UnpackedVideoId(a) == IF TypeOf(a.p) = "object" THEN a.obj.videoID ELSE a.p
UnpackedLang(a) == IF TypeOf(a.p) = "object" THEN a.obj.lang ELSE a.languageCode
UnpackedTimeout(a) ==
    IF TypeOf(a.p) = "object" THEN OrElse(a.obj.timeout, a.options.timeout)
    ELSE a.options.timeout
UnpackedUseCookies(a) ==
    IF TypeOf(a.p) = "object"
    THEN Coalesce(Coalesce(a.obj.useCookies, a.options.useCookies), Bool(TRUE))
    ELSE Coalesce(a.options.useCookies, Bool(TRUE))

\* if (!videoId || typeof videoId !== "string")
InvalidVideoId(v) == ~Truthy(v) \/ TypeOf(v) # "string"

Event(op, arg, aux) == [op |-> op, arg |-> arg, aux |-> aux]

\* the requests that run at the same time
Requests == {1, 2}

\* no concurrent calls are under study
ConcIdle ==
    /\ now = 0
    /\ req = [r \in Requests |-> [pc |-> "idle", tempDir |-> "", subtitleFile |-> "",
                                   readFrom |-> 0]]
    /\ dirs = {}
    /\ dfiles = {}

\* deduplicateAndFilter is not under study
NormIdle ==
    /\ raw = <<>>
    /\ normalized = <<>>
    /\ npc = "idle"

\* no function on text is under study
TextIdle ==
    /\ input = ""
    /\ result = NoCompletion
    /\ ppc = "idle"

\* no POST /mcp request is under study
HttpIdle ==
    http = [r \in Requests |-> [pc |-> "idle", headersSent |-> FALSE, resClosed |-> FALSE,
                                 listener |-> FALSE, transportClosed |-> FALSE,
                                 serverClosed |-> FALSE]]

\* no CallToolResult yet
NoResponse == [content |-> <<>>, isError |-> FALSE]

\* no tool call is under study
ToolIdle ==
    /\ toolArgs = [videoID |-> "", lang |-> Undefined]
    /\ tpc = "idle"
    /\ fetchCall = <<>>
    /\ fetched = NoCompletion
    /\ response = NoResponse

\* no single call of fetchSubtitles is under study
FetchIdle ==
    /\ args \in NullCalls
    /\ pc = "idle"
    /\ videoId = Undefined
    /\ lang = Undefined
    /\ useCookies = FALSE
    /\ timeout = 0
    /\ languagesToTry = <<>>
    /\ dirExists = FALSE
    /\ files = {}
    /\ cookiesPath = ""
    /\ lastError = NoError
    /\ idx = 1
    /\ stderr = ""
    /\ subtitleFile = ""
    /\ subtitles = <<>>
    /\ pending = NoCompletion
    /\ outcome = NoCompletion
    /\ log = <<>>

Init ==
    /\ args \in Calls
    /\ pc = "call"
    /\ videoId = Undefined
    /\ lang = Undefined
    /\ useCookies = FALSE
    /\ timeout = 0
    /\ languagesToTry = <<>>
    /\ dirExists = FALSE
    /\ files = {}
    /\ cookiesPath = ""
    /\ lastError = NoError
    /\ idx = 1
    /\ stderr = ""
    /\ subtitleFile = ""
    /\ subtitles = <<>>
    /\ pending = NoCompletion
    /\ outcome = NoCompletion
    /\ log = <<>>
    /\ NormIdle
    /\ ConcIdle
    /\ ToolIdle
    /\ TextIdle
    /\ HttpIdle

(***************************************************************************)
(* Control flow shared by the steps of the try block.                      *)
(***************************************************************************)
CurrentLang == languagesToTry[idx]

\* a completion that skips the finally block and reaches the caller directly
CompleteSkippingFinally(c) ==
    /\ pc' = "done"
    /\ outcome' = c
    /\ UNCHANGED pending

\* a return or throw inside try { } finally { }: the finally block runs first
Complete(c) ==
    /\ pc' = "finally"
    /\ pending' = c
    /\ UNCHANGED outcome

\* lines 189-199: the value the catch clause of the loop assigns to lastError
Caught(error) ==
    IF error.name = "SubtitleError"
    THEN error
    ELSE SubtitleError("Failed to fetch subtitles in " \o CurrentLang \o ": " \o error.message,
                       videoId, Str(CurrentLang))

\* a catch clause that rethrows instead of recording
CatchInLoopRethrows(error, baseLog) ==
    /\ Complete(Throw(Caught(error)))
    /\ log' = baseLog
    /\ UNCHANGED <<lastError, idx>>

\* a catch clause that keeps the first recorded error
CatchInLoopKeepsFirst(error, baseLog) ==
    /\ lastError' = IF lastError = NoError THEN Caught(error) ELSE lastError
    /\ log' = Append(baseLog, Event("recordError", CurrentLang, Caught(error).message))
    /\ idx' = idx + 1
    /\ pc' = "loop"
    /\ UNCHANGED <<pending, outcome>>

\* a catch clause after which the cookies are provided anew
CatchInLoopRefetchesCookies(error, baseLog) ==
    /\ lastError' = Caught(error)
    /\ log' = Append(baseLog, Event("recordError", CurrentLang, Caught(error).message))
    /\ idx' = idx + 1
    /\ pc' = IF useCookies THEN "cookies" ELSE "loop"
    /\ UNCHANGED <<pending, outcome>>

\* lines 189-203: an error thrown by fetchSubtitlesForLanguage is recorded and the
\* loop goes on with the next language
CatchInLoop(error, baseLog) ==
    /\ lastError' = Caught(error)
    /\ log' = Append(baseLog, Event("recordError", CurrentLang, Caught(error).message))
    /\ idx' = idx + 1
    /\ pc' = "loop"
    /\ UNCHANGED <<pending, outcome>>

\* a loop body that never returns from inside the loop
ReturnOrContinueNeverReturns(subs, baseLog) ==
    /\ log' = Append(baseLog, Event("result", CurrentLang,
                                    IF Len(subs) > 0 THEN "nonempty" ELSE "empty"))
    /\ idx' = idx + 1
    /\ pc' = "loop"
    /\ UNCHANGED <<pending, outcome, lastError>>

\* a loop body that returns whatever list the attempt gave, an empty one too
ReturnOrContinueReturnsEmpty(subs, baseLog) ==
    /\ log' = Append(baseLog, Event("result", CurrentLang,
                                    IF Len(subs) > 0 THEN "nonempty" ELSE "empty"))
    /\ Complete(Return(subs))
    /\ UNCHANGED <<idx, lastError>>

\* lines 183-188: a non-empty list is returned at once, an empty one lets the loop go on
ReturnOrContinue(subs, baseLog) ==
    /\ log' = Append(baseLog, Event("result", CurrentLang,
                                    IF Len(subs) > 0 THEN "nonempty" ELSE "empty"))
    /\ IF Len(subs) > 0
       THEN /\ Complete(Return(subs))
            /\ UNCHANGED <<idx, lastError>>
       ELSE /\ idx' = idx + 1
            /\ pc' = "loop"
            /\ UNCHANGED <<pending, outcome, lastError>>

(***************************************************************************)
(* fetchSubtitles, lines 102-146: unpacking, validation, defaults.         *)
(***************************************************************************)
Enter ==
    /\ pc = "call"
    /\ IF args.p.type = "null"
       THEN \* typeof null === "object": paramsOrVideoId.videoID throws
            /\ pc' = "done"
            /\ outcome' = Throw(RawError("TypeError",
                   "Cannot read properties of null (reading 'videoID')"))
            /\ UNCHANGED <<videoId, lang, useCookies, timeout, languagesToTry>>
       ELSE /\ videoId' = UnpackedVideoId(args)
            /\ lang' = UnpackedLang(args)
            /\ useCookies' = Truthy(UnpackedUseCookies(args))
            /\ IF InvalidVideoId(UnpackedVideoId(args))
               THEN /\ pc' = "done"
                    /\ outcome' = Throw(SubtitleError(
                           "Video ID is required and must be a string",
                           UnpackedVideoId(args), Undefined))
                    /\ UNCHANGED <<timeout, languagesToTry>>
               ELSE /\ timeout' = OrElse(UnpackedTimeout(args),
                                         Num(DefaultTimeout, "30000")).num
                    /\ languagesToTry' = LanguagesToTry(UnpackedLang(args))
                    /\ pc' = "mkdir"
                    /\ UNCHANGED outcome
    /\ UNCHANGED otherVars
    /\ UNCHANGED <<args, dirExists, files, cookiesPath, lastError, idx, stderr,
                   subtitleFile, subtitles, pending, log>>

(***************************************************************************)
(* Line 150: await fs.mkdir(tempDir, { recursive: true }).                 *)
(***************************************************************************)
Mkdir ==
    /\ pc = "mkdir"
    /\ log' = Append(log, Event("mkdir", TempDir, ""))
    /\ \/ /\ dirExists' = TRUE
          /\ pc' = "probe"
          /\ UNCHANGED <<pending, outcome>>
       \/ /\ Complete(Throw(RawError("Error", "EACCES: permission denied, mkdir")))
          /\ UNCHANGED dirExists
    /\ UNCHANGED otherVars
    /\ UNCHANGED <<args, videoId, lang, useCookies, timeout, languagesToTry, files,
                   cookiesPath, lastError, idx, stderr, subtitleFile, subtitles>>

(***************************************************************************)
(* Lines 152-161: the version probe.                                       *)
(***************************************************************************)
\* a probe that is started and not awaited
ProbeStartNotAwaited ==
    /\ pc = "probe"
    /\ log' = Append(log, Event("probe", "yt-dlp --version", ""))
    /\ pc' = IF useCookies THEN "cookies" ELSE "loop"
    /\ UNCHANGED otherVars
    /\ UNCHANGED <<args, videoId, lang, useCookies, timeout, languagesToTry, dirExists,
                   files, cookiesPath, lastError, idx, stderr, subtitleFile, subtitles,
                   pending, outcome>>

ProbeStart ==
    /\ pc = "probe"
    /\ log' = Append(log, Event("probe", "yt-dlp --version", ""))
    /\ pc' = "probing"
    /\ UNCHANGED otherVars
    /\ UNCHANGED <<args, videoId, lang, useCookies, timeout, languagesToTry, dirExists,
                   files, cookiesPath, lastError, idx, stderr, subtitleFile, subtitles,
                   pending, outcome>>

\* a probe whose failure is ignored
ProbeFailedIgnored ==
    /\ pc' = IF useCookies THEN "cookies" ELSE "loop"
    /\ UNCHANGED <<pending, outcome>>

\* lines 155-161: the catch clause of the probe
ProbeFailed ==
    Complete(Throw(SubtitleError(
        "yt-dlp is not installed. Please install it from https://github.com/yt-dlp/yt-dlp#installation",
        videoId, lang)))

ProbeDone ==
    /\ pc = "probing"
    /\ \/ /\ pc' = IF useCookies THEN "cookies" ELSE "loop"
          /\ log' = Append(log, Event("probeEnd", "ok", ""))
          /\ UNCHANGED <<pending, outcome>>
       \/ \* execAsync rejects: yt-dlp is missing or exits with an error
          /\ ProbeFailed
          /\ log' = Append(log, Event("probeEnd", "failed", ""))
    /\ UNCHANGED otherVars
    /\ UNCHANGED <<args, videoId, lang, useCookies, timeout, languagesToTry, dirExists,
                   files, cookiesPath, lastError, idx, stderr, subtitleFile, subtitles>>

(***************************************************************************)
(* Lines 57-75 and 163-167: downloadCookies.                               *)
(***************************************************************************)
CookiesFile == [name |-> "cookies.txt", cues |-> 0, origin |-> ""]

\* line 71: console.warn(`Warning: Could not download cookies: ${error.message}`)
CookieWarning(message) == Event("warn", "Could not download cookies", message)

CookiesStart ==
    /\ pc = "cookies"
    /\ \/ \* process.env.COOKIES_URL is not set: the throw is caught, null is returned
          /\ cookiesPath' = ""
          /\ pc' = "loop"
          /\ log' = Append(log, CookieWarning("COOKIES_URL environment variable not set"))
       \/ /\ log' = Append(log, Event("cookieFetch", "COOKIES_URL", ""))
          /\ pc' = "fetchingCookies"
          /\ UNCHANGED cookiesPath
    /\ UNCHANGED otherVars
    /\ UNCHANGED <<args, videoId, lang, useCookies, timeout, languagesToTry, dirExists,
                   files, lastError, idx, stderr, subtitleFile, subtitles, pending, outcome>>

CookiesDone ==
    /\ pc = "fetchingCookies"
    /\ pc' = "loop"
    /\ \/ \* axios.get fails or times out
          /\ cookiesPath' = ""
          /\ log' = Append(Append(log, Event("cookieFetchEnd", "failed", "")),
                           CookieWarning("timeout of 10000ms exceeded"))
          /\ UNCHANGED files
       \/ \* fs.writeFile fails
          /\ cookiesPath' = ""
          /\ log' = Append(Append(Append(log, Event("cookieFetchEnd", "ok", "")),
                           Event("cookieWrite", PathJoin(TempDir, "cookies.txt"), "failed")),
                           CookieWarning("ENOSPC: no space left on device, write"))
          /\ UNCHANGED files
       \/ /\ cookiesPath' = PathJoin(TempDir, "cookies.txt")
          /\ files' = files \cup {CookiesFile}
          /\ log' = Append(Append(log, Event("cookieFetchEnd", "ok", "")),
                           Event("cookieWrite", PathJoin(TempDir, "cookies.txt"), "ok"))
    /\ UNCHANGED otherVars
    /\ UNCHANGED <<args, videoId, lang, useCookies, timeout, languagesToTry, dirExists,
                   lastError, idx, stderr, subtitleFile, subtitles, pending, outcome>>

(***************************************************************************)
(* Lines 172-213: the loop over languagesToTry.                            *)
(***************************************************************************)
\* lastError?.message || "Unknown error"
LastErrorMessage ==
    IF lastError # NoError /\ lastError.message # "" THEN lastError.message
    ELSE "Unknown error"

\* an exhaustion error that names only the language asked for
NoSubtitlesErrorNamesLang ==
    SubtitleError(
        "No subtitles found for video " \o videoId.val
            \o " in any of the attempted languages: " \o Join(languagesToTry, ", ")
            \o ". Last error: " \o LastErrorMessage,
        videoId, lang)

\* lines 207-213
NoSubtitlesError ==
    SubtitleError(
        "No subtitles found for video " \o videoId.val
            \o " in any of the attempted languages: " \o Join(languagesToTry, ", ")
            \o ". Last error: " \o LastErrorMessage,
        videoId, Str(Join(languagesToTry, ",")))

Exhausted ==
    /\ pc = "loop"
    /\ idx > Len(languagesToTry)
    /\ Complete(Throw(NoSubtitlesError))
    /\ UNCHANGED otherVars
    /\ UNCHANGED <<args, videoId, lang, useCookies, timeout, languagesToTry, dirExists,
                   files, cookiesPath, lastError, idx, stderr, subtitleFile, subtitles, log>>

(***************************************************************************)
(* fetchSubtitlesForLanguage, lines 228-338.                               *)
(***************************************************************************)
\* the files a yt-dlp run for language l may leave in tempDir: none, or one subtitle
\* file named after the output template `${videoId}-${languageCode}.%(ext)s`
Written(vid, l) ==
    {{}} \cup
    { { [name |-> vid \o "-" \o l \o "." \o e, cues |-> c, origin |-> l] } :
        e \in SubtitleExtensions, c \in 0..MaxCues }

\* a command that names the cookie file whenever cookies were asked for
CookieArgumentWhenEnabled == IF useCookies THEN PathJoin(TempDir, "cookies.txt") ELSE ""

\* lines 253-256: `--cookies "<path>"` is pushed only if cookiesPath is truthy;
\* "" stands for a command without the argument
CookieArgument == IF cookiesPath # "" THEN cookiesPath ELSE ""

\* lines 235-265: the yt-dlp command is started
DownloadStart ==
    /\ pc = "loop"
    /\ idx <= Len(languagesToTry)
    /\ log' = Append(log, Event("download", CurrentLang, CookieArgument))
    /\ pc' = "downloading"
    /\ UNCHANGED otherVars
    /\ UNCHANGED <<args, videoId, lang, useCookies, timeout, languagesToTry, dirExists,
                   files, cookiesPath, lastError, idx, stderr, subtitleFile, subtitles,
                   pending, outcome>>

\* the log once a yt-dlp run has ended: what it left in tempDir, its exit and stderr
Ended(W, status, err) ==
    Append(Append(log, Event("wrote", CurrentLang, IF W = {} THEN "nofile" ELSE "files")),
           Event("exit", status, err))

\* lines 262-285: the yt-dlp command ends
DownloadDone ==
    /\ pc = "downloading"
    /\ \E W \in Written(videoId.val, CurrentLang) :
          /\ files' = {f \in files : f.name \notin {w.name : w \in W}} \cup W
          /\ \/ \* a non-zero exit status: execAsync rejects
                /\ CatchInLoop(RawError("Error", "Command failed: yt-dlp"),
                               Ended(W, "nonzero", ""))
                /\ UNCHANGED stderr
             \/ \* the timeout kills the process: execAsync rejects
                /\ CatchInLoop(RawError("Error", "Command failed: yt-dlp (killed)"),
                               Ended(W, "timeout", ""))
                /\ UNCHANGED stderr
             \/ \E e \in StderrSamples :
                  /\ stderr' = e
                  /\ IF Includes(e, "Private video") \/ Includes(e, "Video unavailable")
                     THEN CatchInLoop(SubtitleError(
                              "Video " \o videoId.val \o " is private or unavailable",
                              videoId, Str(CurrentLang)), Ended(W, "ok", e))
                     ELSE IF Includes(e, "No such file or directory")
                     THEN CatchInLoop(SubtitleError(
                              "yt-dlp command not found. Please install yt-dlp",
                              videoId, Str(CurrentLang)), Ended(W, "ok", e))
                     ELSE /\ pc' = "readdir"
                          /\ log' = Ended(W, "ok", e)
                          /\ UNCHANGED <<lastError, idx, pending, outcome>>
    /\ UNCHANGED otherVars
    /\ UNCHANGED <<args, videoId, lang, useCookies, timeout, languagesToTry, dirExists,
                   cookiesPath, subtitleFile, subtitles>>

IsSubtitleName(file) == EndsWith(file, ".vtt") \/ EndsWith(file, ".srt")

\* a filter that does not look at the language code
SubtitleFilesAnyLanguage(names, vid, l) ==
    {file \in names : Includes(file, vid) /\ IsSubtitleName(file)}

\* lines 289-294
SubtitleFiles(names, vid, l) ==
    {file \in names : Includes(file, vid) /\ Includes(file, l) /\ IsSubtitleName(file)}

\* lines 298-302
AnySubFiles(names, vid) ==
    {file \in names : Includes(file, vid) /\ IsSubtitleName(file)}

\* lines 296-314: the files subtitleFiles[0] can be; fs.readdir gives no order
Candidates(names, vid, l) ==
    IF SubtitleFiles(names, vid, l) # {}
    THEN SubtitleFiles(names, vid, l)
    ELSE AnySubFiles(names, vid)

\* lines 288-318
Readdir ==
    /\ pc = "readdir"
    /\ \/ \* fs.readdir fails
          /\ CatchInLoop(RawError("Error", "ENOENT: no such file or directory, scandir"),
                         Append(log, Event("readdir", TempDir, "failed")))
          /\ UNCHANGED subtitleFile
       \/ /\ Candidates({f.name : f \in files}, videoId.val, CurrentLang) = {}
          /\ CatchInLoop(SubtitleError(
                 "No subtitles found for video " \o videoId.val \o " in language "
                     \o CurrentLang,
                 videoId, Str(CurrentLang)),
                 Append(log, Event("readdir", TempDir, "ok")))
          /\ UNCHANGED subtitleFile
       \/ \E file \in Candidates({f.name : f \in files}, videoId.val, CurrentLang) :
            /\ subtitleFile' = file
            /\ pc' = "readfile"
            /\ log' = Append(log, Event("readdir", TempDir, "ok"))
            /\ UNCHANGED <<lastError, idx, pending, outcome>>
    /\ UNCHANGED otherVars
    /\ UNCHANGED <<args, videoId, lang, useCookies, timeout, languagesToTry, dirExists,
                   files, cookiesPath, stderr, subtitles>>

\* lines 323-337: the list the parser chosen by the extension makes of a file
Parsed(file) ==
    [i \in 1..file.cues |-> [text |-> file.origin \o " cue", start |-> i, duration |-> 1]]

\* lines 321-337 and 183-188
ReadFile ==
    /\ pc = "readfile"
    /\ \/ \* fs.readFile fails
          /\ CatchInLoop(RawError("Error", "ENOENT: no such file or directory, open"),
                         Append(log, Event("readFile", subtitleFile, "failed")))
          /\ UNCHANGED subtitles
       \/ \E f \in files :
            /\ f.name = subtitleFile
            /\ IF IsSubtitleName(subtitleFile)
               THEN /\ subtitles' = Parsed(f)
                    /\ ReturnOrContinue(Parsed(f),
                                        Append(log, Event("readFile", subtitleFile, "ok")))
               ELSE /\ CatchInLoop(SubtitleError("Unsupported subtitle format", videoId,
                                                 Str(CurrentLang)),
                                   Append(log, Event("readFile", subtitleFile, "ok")))
                    /\ UNCHANGED subtitles
    /\ UNCHANGED otherVars
    /\ UNCHANGED <<args, videoId, lang, useCookies, timeout, languagesToTry, dirExists,
                   files, cookiesPath, stderr, subtitleFile>>

(***************************************************************************)
(* Lines 214-222: the finally block.                                       *)
(***************************************************************************)
\* an fs.rm rejection that leaves the finally block and replaces the completion
CleanupErrorEscapes == Throw(RawError("Error", "EBUSY: resource busy or locked, rmdir"))

\* lines 219-221: the catch clause only warns, the pending completion stays
CleanupErrorSwallowed == pending

Finally ==
    /\ pc = "finally"
    /\ pc' = "done"
    /\ \/ /\ log' = Append(log, Event("rm", TempDir, "ok"))
          /\ dirExists' = FALSE
          /\ files' = {}
          /\ outcome' = pending
       \/ \* fs.rm fails
          /\ log' = Append(log, Event("rm", TempDir, "failed"))
          /\ outcome' = CleanupErrorSwallowed
          /\ UNCHANGED <<dirExists, files>>
    /\ UNCHANGED otherVars
    /\ UNCHANGED <<args, videoId, lang, useCookies, timeout, languagesToTry, cookiesPath,
                   lastError, idx, stderr, subtitleFile, subtitles, pending>>

Next ==
    \/ Enter
    \/ Mkdir
    \/ ProbeStart
    \/ ProbeDone
    \/ CookiesStart
    \/ CookiesDone
    \/ DownloadStart
    \/ DownloadDone
    \/ Readdir
    \/ ReadFile
    \/ Exhausted
    \/ Finally

Spec == Init /\ [][Next]_vars

(***************************************************************************)
(* Reading the log.                                                        *)
(***************************************************************************)
Positions(op) == {i \in 1..Len(log) : log[i].op = op}

IsDownload(e) == e.op = "download"
IsRecordError(e) == e.op = "recordError"

\* the languages yt-dlp was started for, in the order of the starts
AttemptedLanguages ==
    [i \in 1..Len(SelectSeq(log, IsDownload)) |-> SelectSeq(log, IsDownload)[i].arg]

\* the messages of the errors the loop recorded, in the order recorded
RecordedMessages ==
    [i \in 1..Len(SelectSeq(log, IsRecordError)) |-> SelectSeq(log, IsRecordError)[i].aux]

\* the end of the attempt that starts at position d of the log
AttemptEnd(d) ==
    IF \E j \in Positions("download") \cup Positions("rm") : j > d
    THEN CHOOSE j \in Positions("download") \cup Positions("rm") :
            /\ j > d
            /\ \A k \in Positions("download") \cup Positions("rm") : k > d => j <= k
    ELSE Len(log) + 1

\* the attempt that starts at position d has run to its end
AttemptOver(d) == AttemptEnd(d) <= Len(log) \/ pc \in {"loop", "finally", "done"}

\* the attempt that starts at position d recorded an error for its language
Recorded(d) ==
    \E i \in Positions("recordError") :
        d < i /\ i < AttemptEnd(d) /\ log[i].arg = log[d].arg

\* the attempt that starts at position d is followed by one for the next candidate
\* (once the loop has moved on), unless it was the last candidate
NextAttempted(d) ==
    LET k == Cardinality({j \in Positions("download") : j <= d})
    IN  k < Len(languagesToTry) /\ pc # "loop"
            => /\ AttemptEnd(d) \in Positions("download")
               /\ log[AttemptEnd(d)].arg = languagesToTry[k + 1]

\* the failure is the one thrown when every candidate is exhausted
IsExhaustion(c) ==
    /\ c.kind = "throw"
    /\ Includes(c.error.message, "in any of the attempted languages")

(***************************************************************************)
(* C1: once a language attempt returns a non-empty caption list, that list *)
(* is the result of the request and yt-dlp is not started again.           *)
(***************************************************************************)
C1_ShortCircuit ==
    \A i \in Positions("result") :
        log[i].aux = "nonempty" =>
            /\ \A j \in Positions("download") : j < i
            /\ Len(subtitles) > 0
            /\ pc \in {"finally", "done"}
            /\ pc = "finally" => pending = Return(subtitles)
            /\ pc = "done" => outcome = Return(subtitles)

\* the first candidate gave captions while a second candidate was still to come
C1_Witness ==
    /\ pc = "done"
    /\ outcome.kind = "return"
    /\ Len(outcome.value) > 0
    /\ AttemptedLanguages = <<"en">>
    /\ languagesToTry = <<"en", "hi">>

(***************************************************************************)
(* C2: when the call reached the creation of the working directory, its    *)
(* removal has been attempted by the time the call returns or throws.      *)
(***************************************************************************)
C2_CleanupOnEveryExit ==
    pc = "done" /\ Positions("mkdir") # {} =>
        /\ Positions("rm") # {}
        /\ \A i \in Positions("rm") : i = Len(log)
        /\ outcome.kind \in {"return", "throw"}

\* the call threw after the directory was made and yt-dlp had run
C2_Witness ==
    /\ pc = "done"
    /\ outcome.kind = "throw"
    /\ Positions("download") # {}
    /\ log[Len(log)].op = "rm"

(***************************************************************************)
(* C3: when every candidate was attempted and none gave a non-empty list,  *)
(* the call throws a SubtitleError that names the video id and the         *)
(* attempted languages in the order attempted.                             *)
(***************************************************************************)
C3_ExhaustionFails ==
    /\ pc = "done"
    /\ Len(AttemptedLanguages) > 0
    /\ \A i \in Positions("result") : log[i].aux = "empty"
    =>
    /\ outcome.kind = "throw"
    /\ outcome.error.name = "SubtitleError"
    /\ outcome.error.videoId = videoId
    /\ outcome.error.languageCode = Str(Join(AttemptedLanguages, ","))
    /\ Includes(outcome.error.message, "for video " \o videoId.val \o " ")
    /\ Includes(outcome.error.message, ": " \o Join(AttemptedLanguages, ", ") \o ".")

\* both default candidates were attempted and the call failed
C3_Witness ==
    /\ pc = "done"
    /\ AttemptedLanguages = <<"en", "hi">>
    /\ IsExhaustion(outcome)
    /\ outcome.error.languageCode = Str("en,hi")

(***************************************************************************)
(* Reading the log: what a yt-dlp run did.                                 *)
(***************************************************************************)
\* the exit event of the attempt that starts at position d (0 while it runs)
ExitOf(d) ==
    IF \E i \in Positions("exit") : d < i /\ i < AttemptEnd(d)
    THEN CHOOSE i \in Positions("exit") : d < i /\ i < AttemptEnd(d)
    ELSE 0

\* yt-dlp exited with a non-zero status, was killed by the timeout, or exited with
\* one of the three signals in its diagnostic output
ProcessFailed(d) ==
    /\ ExitOf(d) # 0
    /\ \/ log[ExitOf(d)].arg \in {"nonzero", "timeout"}
       \/ Includes(log[ExitOf(d)].aux, "Private video")
       \/ Includes(log[ExitOf(d)].aux, "Video unavailable")
       \/ Includes(log[ExitOf(d)].aux, "No such file or directory")

\* the yt-dlp run of the attempt that starts at position d left no subtitle file
ProducedNothing(d) ==
    /\ ExitOf(d) # 0
    /\ log[ExitOf(d) - 1].op = "wrote"
    /\ log[ExitOf(d) - 1].aux = "nofile"

\* no yt-dlp run of the request, up to and including the attempt that starts at
\* position d, left a subtitle file
NothingInDirectory(d) ==
    /\ ExitOf(d) # 0
    /\ \A i \in Positions("wrote") : i < ExitOf(d) => log[i].aux = "nofile"

(***************************************************************************)
(* C4 as claimed: an attempt whose yt-dlp run failed, or produced no       *)
(* subtitle file, records an error for its language and is followed by     *)
(* the attempt for the next candidate.                                     *)
(***************************************************************************)
C4_AsClaimed ==
    \A d \in Positions("download") :
        AttemptOver(d) /\ (ProcessFailed(d) \/ ProducedNothing(d)) =>
            Recorded(d) /\ NextAttempted(d)

(***************************************************************************)
(* C4, amended: an attempt whose yt-dlp run failed, or that finds no       *)
(* subtitle file of the video in the working directory (none produced by   *)
(* this attempt or by an earlier one), records an error for its language   *)
(* and is followed by the attempt for the next candidate.                  *)
(***************************************************************************)
C4_FailureRecordedNotFatal ==
    \A d \in Positions("download") :
        AttemptOver(d) /\ (ProcessFailed(d) \/ NothingInDirectory(d)) =>
            Recorded(d) /\ NextAttempted(d)

\* the run for "en" failed, its error was recorded, and "hi" was attempted next
C4_Witness ==
    \E d \in Positions("download") :
        /\ log[d].arg = "en"
        /\ ProcessFailed(d)
        /\ Recorded(d)
        /\ AttemptEnd(d) \in Positions("download")
        /\ log[AttemptEnd(d)].arg = "hi"

(***************************************************************************)
(* C5: when the version probe fails, the call throws a SubtitleError and   *)
(* yt-dlp is never started for a language.                                 *)
(***************************************************************************)
C5_ProbeFailureIsFatal ==
    \A i \in Positions("probeEnd") :
        log[i].arg = "failed" =>
            /\ Positions("download") = {}
            /\ Positions("cookieFetch") = {}
            /\ pc \in {"finally", "done"}
            /\ LET c == IF pc = "done" THEN outcome ELSE pending
               IN  /\ c.kind = "throw"
                   /\ c.error.name = "SubtitleError"
                   /\ Includes(c.error.message, "yt-dlp is not installed")

\* the probe failed and the call has thrown
C5_Witness ==
    /\ pc = "done"
    /\ \E i \in Positions("probeEnd") : log[i].arg = "failed"
    /\ outcome.kind = "throw"

(***************************************************************************)
(* C6: the candidates are attempted in list order, each at most once: "en" *)
(* then "hi" when no language is given, the given language alone           *)
(* otherwise; "hi" is started only after the attempt for "en" has ended    *)
(* without a non-empty result.                                             *)
(***************************************************************************)
\* the lang argument of the call
GivenLang == IF args.p.type = "object" THEN args.obj.lang ELSE args.languageCode

C6_Expected ==
    IF GivenLang.type = "string" /\ GivenLang.val # ""
    THEN <<GivenLang.val>>
    ELSE <<"en", "hi">>

C6_OrderedAttempts ==
    /\ Len(AttemptedLanguages) <= Len(C6_Expected)
    /\ \A i \in 1..Len(AttemptedLanguages) : AttemptedLanguages[i] = C6_Expected[i]
    /\ \A d \in Positions("download") :
          log[d].arg = "hi" /\ C6_Expected = <<"en", "hi">> =>
              \E e \in Positions("download") :
                  /\ e < d
                  /\ log[e].arg = "en"
                  /\ \E i \in Positions("recordError") \cup Positions("result") :
                        /\ e < i /\ i < d
                        /\ log[i].arg = "en"
                        /\ log[i].aux # "nonempty"
    /\ pc = "downloading" => log[Len(log)].op = "download"

\* no language was given and both defaults were attempted, in order
C6_Witness ==
    /\ GivenLang = Undefined
    /\ AttemptedLanguages = <<"en", "hi">>

(***************************************************************************)
(* C7: a call with an empty or non-string video id throws a SubtitleError  *)
(* at once and has no effect outside the call.                             *)
(***************************************************************************)
\* the video id argument of the call
GivenVideoId == IF args.p.type = "object" THEN args.obj.videoID ELSE args.p

C7_InvalidIdRejected ==
    pc = "done" /\ (GivenVideoId.type # "string" \/ GivenVideoId.val = "") =>
        /\ outcome.kind = "throw"
        /\ outcome.error.name = "SubtitleError"
        /\ log = <<>>
        /\ ~dirExists
        /\ files = {}

(***************************************************************************)
(* C8: every failure of a request that got past the validation of its      *)
(* arguments reaches the caller as a SubtitleError.                        *)
(***************************************************************************)
C8_OnlySubtitleErrors ==
    pc = "done" /\ outcome.kind = "throw" /\ log # <<>> =>
        outcome.error.name = "SubtitleError"

(***************************************************************************)
(* C9 as claimed: when the call fails because every candidate is           *)
(* exhausted, the loop has recorded an error and the failure carries the   *)
(* one recorded last.                                                      *)
(***************************************************************************)
C9_AsClaimed ==
    pc = "done" /\ IsExhaustion(outcome) =>
        /\ Len(RecordedMessages) > 0
        /\ EndsWith(outcome.error.message,
                    ". Last error: " \o RecordedMessages[Len(RecordedMessages)])

(***************************************************************************)
(* C9, amended: when the call fails because every candidate is exhausted,  *)
(* the failure carries the error the loop recorded last if it recorded     *)
(* one, and "Unknown error" if every attempt ended with an empty list and  *)
(* none was recorded.                                                      *)
(***************************************************************************)
C9_CarriesLastErrorIfAny ==
    pc = "done" /\ IsExhaustion(outcome) =>
        EndsWith(outcome.error.message,
                 ". Last error: " \o
                     (IF Len(RecordedMessages) > 0
                      THEN RecordedMessages[Len(RecordedMessages)]
                      ELSE "Unknown error"))

\* two different errors were recorded and the call failed by exhaustion
C9_Witness ==
    /\ pc = "done"
    /\ IsExhaustion(outcome)
    /\ Len(RecordedMessages) = 2
    /\ RecordedMessages[1] # RecordedMessages[2]

(***************************************************************************)
(* C10 as claimed: the file an attempt reads has a name that matches the   *)
(* video id and the language of the attempt, and was not left by the       *)
(* attempt for another language.                                           *)
(***************************************************************************)
C10_AsClaimed ==
    pc = "readfile" =>
        \E f \in files :
            /\ f.name = subtitleFile
            /\ Includes(f.name, videoId.val)
            /\ Includes(f.name, CurrentLang)
            /\ f.origin = CurrentLang

(***************************************************************************)
(* C10, amended: the file an attempt reads is a .vtt or .srt file of the   *)
(* working directory whose name contains the video id; its name also       *)
(* contains the language code of the attempt whenever the directory holds  *)
(* such a file, and otherwise it may be a file left by the attempt for     *)
(* another language.                                                       *)
(***************************************************************************)
C10_ReadsMatchingFileIfAny ==
    pc = "readfile" =>
        /\ \E f \in files : f.name = subtitleFile
        /\ Includes(subtitleFile, videoId.val)
        /\ EndsWith(subtitleFile, ".vtt") \/ EndsWith(subtitleFile, ".srt")
        /\ (\E f \in files :
                /\ Includes(f.name, videoId.val)
                /\ Includes(f.name, CurrentLang)
                /\ EndsWith(f.name, ".vtt") \/ EndsWith(f.name, ".srt"))
            => Includes(subtitleFile, CurrentLang)

\* the attempt for "hi" reads the file the attempt for "en" left
C10_Witness ==
    /\ pc = "readfile"
    /\ CurrentLang = "hi"
    /\ \E f \in files : f.name = subtitleFile /\ f.origin = "en"
    /\ ~Includes(subtitleFile, CurrentLang)

(***************************************************************************)
(* Two calls of fetchSubtitles that run at the same time: the steps of     *)
(* each call that touch the file system, lines 142-150, 152-161, 235-265,  *)
(* 287-321 and 214-222.  Both calls are fetchSubtitles("v1", "en",         *)
(* {useCookies: false}); Date.now() and Math.random() are the clock and    *)
(* a draw of the environment.                                              *)
(***************************************************************************)
\* the last value of Date.now() the model reaches
MaxClock == 1

\* Math.random().toString(36).substr(2, 9)
RandomSuffixes == {"4fzzzxjyl", "i"}

\* lines 143-146
TempDirName(t, suffix) == "/tmp/yt-subs-" \o ToString(t) \o "-" \o suffix

ConcInit ==
    /\ FetchIdle
    /\ NormIdle
    /\ ToolIdle
    /\ TextIdle
    /\ HttpIdle
    /\ now = 0
    /\ req = [r \in Requests |-> [pc |-> "call", tempDir |-> "", subtitleFile |-> "",
                                   readFrom |-> 0]]
    /\ dirs = {}
    /\ dfiles = {}

\* the clock advances
Tick ==
    /\ now < MaxClock
    /\ now' = now + 1
    /\ UNCHANGED <<req, dirs, dfiles, fetchVars, normVars, toolVars, textVars, httpVars>>

\* lines 142-146: the name of the working directory
ConcEnter(r) ==
    /\ req[r].pc = "call"
    /\ \E suffix \in RandomSuffixes :
          req' = [req EXCEPT ![r].pc = "mkdir", ![r].tempDir = TempDirName(now, suffix)]
    /\ UNCHANGED <<now, dirs, dfiles, fetchVars, normVars, toolVars, textVars, httpVars>>

\* line 150: fs.mkdir(tempDir, { recursive: true }) accepts a directory that exists
ConcMkdir(r) ==
    /\ req[r].pc = "mkdir"
    /\ \/ /\ dirs' = dirs \cup {req[r].tempDir}
          /\ req' = [req EXCEPT ![r].pc = "probe"]
       \/ /\ req' = [req EXCEPT ![r].pc = "finally"]
          /\ UNCHANGED dirs
    /\ UNCHANGED <<now, dfiles, fetchVars, normVars, toolVars, textVars, httpVars>>

\* lines 152-161
ConcProbe(r) ==
    /\ req[r].pc = "probe"
    /\ \/ req' = [req EXCEPT ![r].pc = "download"]
       \/ req' = [req EXCEPT ![r].pc = "finally"]
    /\ UNCHANGED <<now, dirs, dfiles, fetchVars, normVars, toolVars, textVars, httpVars>>

\* lines 235-285: yt-dlp writes `${videoId}-${languageCode}.vtt` into tempDir, or nothing
ConcDownload(r) ==
    /\ req[r].pc = "download"
    /\ \/ /\ dfiles' = {f \in dfiles : ~(f.dir = req[r].tempDir /\ f.name = "v1-en.vtt")}
                       \cup {[dir |-> req[r].tempDir, name |-> "v1-en.vtt", owner |-> r]}
          /\ dirs' = dirs \cup {req[r].tempDir}
       \/ UNCHANGED <<dirs, dfiles>>
    /\ \/ req' = [req EXCEPT ![r].pc = "readdir"]
       \/ req' = [req EXCEPT ![r].pc = "finally"]
    /\ UNCHANGED <<now, fetchVars, normVars, toolVars, textVars, httpVars>>

\* lines 287-318
ConcReaddir(r) ==
    /\ req[r].pc = "readdir"
    /\ IF req[r].tempDir \in dirs
          /\ Candidates({f.name : f \in {g \in dfiles : g.dir = req[r].tempDir}},
                        "v1", "en") # {}
       THEN \E file \in Candidates({f.name : f \in {g \in dfiles : g.dir = req[r].tempDir}},
                                   "v1", "en") :
                req' = [req EXCEPT ![r].pc = "readfile", ![r].subtitleFile = file]
       ELSE req' = [req EXCEPT ![r].pc = "finally"]
    /\ UNCHANGED <<now, dirs, dfiles, fetchVars, normVars, toolVars, textVars, httpVars>>

\* lines 320-337: the content read is the one its last writer left
ConcReadFile(r) ==
    /\ req[r].pc = "readfile"
    /\ IF \E f \in dfiles : f.dir = req[r].tempDir /\ f.name = req[r].subtitleFile
       THEN \E f \in dfiles :
                /\ f.dir = req[r].tempDir /\ f.name = req[r].subtitleFile
                /\ req' = [req EXCEPT ![r].pc = "finally", ![r].readFrom = f.owner]
       ELSE req' = [req EXCEPT ![r].pc = "finally"]
    /\ UNCHANGED <<now, dirs, dfiles, fetchVars, normVars, toolVars, textVars, httpVars>>

\* lines 214-222: fs.rm(tempDir, { recursive: true, force: true })
ConcFinally(r) ==
    /\ req[r].pc = "finally"
    /\ req' = [req EXCEPT ![r].pc = "done"]
    /\ \/ /\ dirs' = dirs \ {req[r].tempDir}
          /\ dfiles' = {f \in dfiles : f.dir # req[r].tempDir}
       \/ UNCHANGED <<dirs, dfiles>>
    /\ UNCHANGED <<now, fetchVars, normVars, toolVars, textVars, httpVars>>

ConcNext ==
    \/ Tick
    \/ \E r \in Requests : ConcEnter(r)
    \/ \E r \in Requests : ConcMkdir(r)
    \/ \E r \in Requests : ConcProbe(r)
    \/ \E r \in Requests : ConcDownload(r)
    \/ \E r \in Requests : ConcReaddir(r)
    \/ \E r \in Requests : ConcReadFile(r)
    \/ \E r \in Requests : ConcFinally(r)

ConcSpec == ConcInit /\ [][ConcNext]_vars

\* the call holds its working directory: from its creation to its removal
HoldsDirectory(r) == req[r].pc \in {"probe", "download", "readdir", "readfile", "finally"}

(***************************************************************************)
(* C11: two calls that hold a working directory at the same time hold      *)
(* different directories, and no call reads a file another call wrote.     *)
(***************************************************************************)
C11_DistinctDirectories ==
    /\ \A r1, r2 \in Requests :
          r1 # r2 /\ HoldsDirectory(r1) /\ HoldsDirectory(r2) =>
              req[r1].tempDir # req[r2].tempDir
    /\ \A r \in Requests : req[r].readFrom \in {0, r}

(***************************************************************************)
(* C12: a failure to provide cookies (COOKIES_URL unset, the HTTP fetch    *)
(* fails or times out, the file cannot be written) does not fail the call: *)
(* the call goes on to the language attempts, and every yt-dlp command     *)
(* started after the failure carries no --cookies argument.                *)
(***************************************************************************)
C12_CookieFailureNotFatal ==
    \A w \in Positions("warn") :
        /\ pc \in {"loop", "downloading", "readdir", "readfile", "finally", "done"}
        /\ pc \in {"finally", "done"} => Positions("download") # {}
        /\ \A d \in Positions("download") : d > w /\ log[d].aux = ""

C12_Witness ==
    /\ pc = "done"
    /\ useCookies
    /\ \E w \in Positions("warn") : log[w].aux = "timeout of 10000ms exceeded"
    /\ \E d \in Positions("download") : log[d].aux = ""
    /\ outcome.kind = "return"

(***************************************************************************)
(* C13: the completion the caller gets is the one that was pending when    *)
(* the finally block was entered, whether fs.rm succeeded or failed.       *)
(***************************************************************************)
C13_CleanupNeverChangesOutcome ==
    pc = "done" /\ Positions("rm") # {} =>
        /\ outcome = pending
        /\ outcome.kind \in {"return", "throw"}
        /\ outcome.kind = "throw" => outcome.error.message # CleanupErrorEscapes.error.message

C13_Witness ==
    /\ pc = "done"
    /\ \E i \in Positions("rm") : log[i].aux = "failed"
    /\ dirExists
    /\ outcome.kind = "return"
    /\ outcome.value # <<>>

(***************************************************************************)
(* C14: at most one external call of a request is in flight: a version     *)
(* probe, a cookie fetch or a yt-dlp download starts only after every      *)
(* external call started before it has ended.                              *)
(***************************************************************************)
StartOps == {"probe", "cookieFetch", "download"}

EndOp(op) ==
    CASE op = "probe" -> "probeEnd"
      [] op = "cookieFetch" -> "cookieFetchEnd"
      [] op = "download" -> "exit"

Starts == {i \in 1..Len(log) : log[i].op \in StartOps}

\* the call started at position s has ended before position n of the log
EndedBefore(s, n) == \E e \in (s + 1)..(n - 1) : log[e].op = EndOp(log[s].op)

InFlight == {s \in Starts : ~EndedBefore(s, Len(log) + 1)}

C14_OneCallInFlight ==
    /\ \A s1, s2 \in Starts : s1 < s2 => EndedBefore(s1, s2)
    /\ Cardinality(InFlight) <= 1
    /\ InFlight # {} <=> pc \in {"probing", "fetchingCookies", "downloading"}

C14_Witness ==
    /\ pc = "downloading"
    /\ Positions("probe") # {}
    /\ Positions("cookieFetch") # {}
    /\ Cardinality(Positions("download")) = 2
    /\ Cardinality(InFlight) = 1

(***************************************************************************)
(* The summarize_youtube_video tool of src/index.ts: the schema of its     *)
(* arguments, its handler and getSubtitles.  The call of fetchSubtitles is *)
(* one await; its completion is chosen among the completions a call of     *)
(* fetchSubtitles has.                                                     *)
(***************************************************************************)
\* the longest caption list fetchSubtitles returns to the handler
MaxCaptions == 3

\* video IDs the schema accepts: strings of length 11
VideoIDs == {"xvFZjo5PgG0", "dQw4w9WgXcQ"}

\* values of lang the schema accepts: absent, "", or a string of length 2
ToolLangs == {Undefined, Str(""), Str("en"), Str("hi")}

\* the text of a caption: cleanSubtitleText may leave nothing of a cue made of tags
CaptionTexts == {"", "a", "b c"}

\* the non-empty lists fetchSubtitles returns (lines 183-188 of yt-dlp.ts)
CaptionLists ==
    UNION { { [i \in 1..n |-> [text |-> t[i], start |-> i, duration |-> 1]] :
                t \in [1..n -> CaptionTexts] } : n \in 1..MaxCaptions }

\* the errors fetchSubtitles throws
FetchErrors(vid, l) ==
    { SubtitleError("yt-dlp is not installed. Please install it from https://github.com/yt-dlp/yt-dlp#installation",
                    Str(vid), l),
      SubtitleError("No subtitles found for video " \o vid
                        \o " in any of the attempted languages: en, hi. Last error: Unknown error",
                    Str(vid), Str("en,hi")),
      RawError("Error", "ENOSPC: no space left on device, mkdir") }

FetchCompletions(vid, l) ==
    {Return(c) : c \in CaptionLists} \cup {Throw(e) : e \in FetchErrors(vid, l)}

\* lines 56-61: .transform((val) => (val === "" ? undefined : val))
LangTransform(val) == IF val = Str("") THEN Undefined ELSE val

\* `${error}`: Error.prototype.toString
ErrorToString(error) ==
    IF error.name = "" THEN error.message
    ELSE IF error.message = "" THEN error.name
    ELSE error.name \o ": " \o error.message

\* a catch clause that leaves the error flag unset
ToolErrorResponseUnflagged(error) ==
    [content |-> <<[type |-> "text", text |-> "Error: " \o ErrorToString(error)]>>,
     isError |-> FALSE]

\* lines 83-87
ToolErrorResponse(error) ==
    [content |-> <<[type |-> "text", text |-> "Error: " \o ErrorToString(error)]>>,
     isError |-> TRUE]

\* lines 79-82
ToolSuccessResponse(text) ==
    [content |-> <<[type |-> "text", text |-> text]>>, isError |-> FALSE]

\* the texts joined with nothing between them
GetSubtitlesTextUnseparated(subtitle) ==
    Join([i \in 1..Len(subtitle) |-> subtitle[i].text], "")

\* lines 165-168: subtitle.map((s) => s.text).join(" ")
GetSubtitlesText(subtitle) ==
    Join([i \in 1..Len(subtitle) |-> subtitle[i].text], " ")

ToolInit ==
    /\ toolArgs \in [videoID : VideoIDs, lang : ToolLangs]
    /\ tpc = "call"
    /\ fetchCall = <<>>
    /\ fetched = NoCompletion
    /\ response = NoResponse
    /\ FetchIdle
    /\ NormIdle
    /\ ConcIdle
    /\ TextIdle
    /\ HttpIdle

\* a handler that passes on the lang it was sent, neither transformed nor tested
FetchArgumentsAsSent(a) == <<Str(a.videoID), a.lang>>

\* lines 56-61, 75-77 and 165-166: the arguments fetchSubtitles gets for the tool
\* arguments a: lang ? getSubtitles(videoID, lang) : getSubtitles(videoID)
FetchArguments(a) ==
    LET l == LangTransform(a.lang)
    IN IF Truthy(l) THEN <<Str(a.videoID), l>> ELSE <<Str(a.videoID), Undefined>>

\* lines 73-77 and 165-166: the handler calls getSubtitles, which calls fetchSubtitles
ToolCall ==
    /\ tpc = "call"
    /\ fetchCall' = FetchArguments(toolArgs)
    /\ tpc' = "fetching"
    /\ UNCHANGED <<toolArgs, fetched, response, fetchVars, normVars, concVars, textVars, httpVars>>

\* lines 74-88 and 166-167: fetchSubtitles settles, the handler returns
ToolSettled ==
    /\ tpc = "fetching"
    /\ \E c \in FetchCompletions(fetchCall[1].val, fetchCall[2]) :
          /\ fetched' = c
          /\ response' = IF c.kind = "return"
                         THEN ToolSuccessResponse(GetSubtitlesText(c.value))
                         ELSE ToolErrorResponse(c.error)
    /\ tpc' = "done"
    /\ UNCHANGED <<toolArgs, fetchCall, fetchVars, normVars, concVars, textVars, httpVars>>

ToolNext ==
    \/ ToolCall
    \/ ToolSettled

ToolSpec == ToolInit /\ [][ToolNext]_vars

(***************************************************************************)
(* C15: the response of the tool handler has isError set if and only if    *)
(* fetchSubtitles failed; the response to a failure is the one text        *)
(* "Error: " followed by the description of the error, and the response to *)
(* a success carries the text of every caption.                            *)
(***************************************************************************)
C15_ErrorFlagIffFailed ==
    tpc = "done" =>
        /\ fetched.kind \in {"return", "throw"}
        /\ response.isError <=> fetched.kind = "throw"
        /\ Len(response.content) = 1
        /\ response.content[1].type = "text"
        /\ fetched.kind = "throw" =>
              /\ fetched.value = <<>>
              /\ SubSeq(response.content[1].text, 1, 7) = "Error: "
              /\ EndsWith(response.content[1].text, fetched.error.message)
        /\ fetched.kind = "return" =>
              \A i \in 1..Len(fetched.value) :
                  Includes(response.content[1].text, fetched.value[i].text)

C15_Witness ==
    /\ tpc = "done"
    /\ fetched.kind = "throw"
    /\ fetched.error.name = "SubtitleError"
    /\ response.isError

(***************************************************************************)
(* C16: on success the text of the response is the text fields of the      *)
(* captions, in the order of the list, with one space between neighbours   *)
(* and nothing else.                                                       *)
(***************************************************************************)
\* where the i-th text starts in the output: after the texts before it and a space each
RECURSIVE Offset(_, _)
Offset(list, i) ==
    IF i = 1 THEN 0 ELSE Offset(list, i - 1) + Len(list[i - 1].text) + 1

C16_TextsJoinedBySpaces ==
    tpc = "done" /\ fetched.kind = "return" =>
        LET list == fetched.value
            out == response.content[1].text
        IN /\ Len(out) = Offset(list, Len(list) + 1) - 1
           /\ \A i \in 1..Len(list) :
                 /\ SubSeq(out, Offset(list, i) + 1, Offset(list, i) + Len(list[i].text))
                        = list[i].text
                 /\ i < Len(list) =>
                       SubSeq(out, Offset(list, i + 1), Offset(list, i + 1)) = " "

C16_Witness ==
    /\ tpc = "done"
    /\ fetched.kind = "return"
    /\ Len(fetched.value) = 2
    /\ fetched.value[1].text = "b c"
    /\ fetched.value[2].text = "a"
    /\ response.content[1].text = "b c a"

(***************************************************************************)
(* The normalizer: what parseVTT and parseSRT push for the cues they find, *)
(* and deduplicateAndFilter (lines 462-483).  Times are counted in         *)
(* milliseconds: a timestamp has three decimals of a second.               *)
(***************************************************************************)
\* the longest list of cues of a subtitle file
MaxLen == 3

\* HH:MM:SS.mmm as the timing regular expressions match it: digits only, no sign
Timestamp(h, m, sec, ms) == [h |-> h, m |-> m, s |-> sec, ms |-> ms]

\* lines 490-501: hours * 3600 + minutes * 60 + seconds, in milliseconds
TimeToSeconds(t) == t.h * 3600000 + t.m * 60000 + t.s * 1000 + t.ms

CueTexts == {"a", "b"}
CueStarts == {Timestamp(0, 0, 0, 0), Timestamp(0, 0, 0, 50), Timestamp(0, 0, 0, 100)}
CueEnds == {Timestamp(0, 0, 0, 50), Timestamp(0, 0, 0, 100), Timestamp(0, 0, 0, 200)}

\* the cues with a non-empty text the parsers find in a file
Cues == [text : CueTexts, start : CueStarts, end : CueEnds]

CueLists == UNION {[1..n -> Cues] : n \in 0..MaxLen}

\* lines 372-376, 389-393 and 423-427: the entry pushed for a cue
ParsedEntry(cue) ==
    [text |-> cue.text,
     start |-> TimeToSeconds(cue.start),
     duration |-> TimeToSeconds(cue.end) - TimeToSeconds(cue.start)]

ParsedEntries(cues) == [i \in 1..Len(cues) |-> ParsedEntry(cues[i])]

\* line 468: 0.1 seconds
ShortestDuration == 100

\* a filter that drops only negative durations
TooShortOnlyIfNegative(subtitle) == subtitle.duration < 0

\* lines 467-470
TooShort(subtitle) == subtitle.duration < ShortestDuration

\* a key that tells entries of different durations apart
DedupKeyWithDuration(subtitle) ==
    <<subtitle.text, subtitle.start \div 100, subtitle.duration>>

\* line 473: `${subtitle.text}_${Math.floor(subtitle.start * 10)}`
DedupKey(subtitle) == <<subtitle.text, subtitle.start \div 100>>

\* lines 463-479: the loop; i is its position, seen and filtered are its locals
RECURSIVE FilterLoop(_, _, _, _)
FilterLoop(subs, i, seen, filtered) ==
    IF i > Len(subs) THEN filtered
    ELSE IF TooShort(subs[i]) THEN FilterLoop(subs, i + 1, seen, filtered)
    ELSE IF DedupKey(subs[i]) \in seen THEN FilterLoop(subs, i + 1, seen, filtered)
    ELSE FilterLoop(subs, i + 1, seen \cup {DedupKey(subs[i])},
                    Append(filtered, subs[i]))

\* x placed in a list sorted by start, before the entries that start at the same time
RECURSIVE InsertBeforeEqual(_, _)
InsertBeforeEqual(x, sorted) ==
    IF sorted = <<>> THEN <<x>>
    ELSE IF x.start - Head(sorted).start <= 0 THEN <<x>> \o sorted
    ELSE <<Head(sorted)>> \o InsertBeforeEqual(x, Tail(sorted))

\* x placed in a list sorted by start, after the entries that start at the same time
RECURSIVE InsertAfterEqual(_, _)
InsertAfterEqual(x, sorted) ==
    IF sorted = <<>> THEN <<x>>
    ELSE IF x.start - Head(sorted).start < 0 THEN <<x>> \o sorted
    ELSE <<Head(sorted)>> \o InsertAfterEqual(x, Tail(sorted))

\* a sort that is not stable: entries with equal start end up in reverse order
RECURSIVE SortTiesReversed(_)
SortTiesReversed(list) ==
    IF list = <<>> THEN <<>>
    ELSE InsertBeforeEqual(list[Len(list)], SortTiesReversed(SubSeq(list, 1, Len(list) - 1)))

\* no sort at all
KeepInputOrder(list) == list

\* line 482: filtered.sort((a, b) => a.start - b.start); Array.prototype.sort is stable
RECURSIVE SortByStart(_)
SortByStart(list) ==
    IF list = <<>> THEN <<>>
    ELSE InsertAfterEqual(list[Len(list)], SortByStart(SubSeq(list, 1, Len(list) - 1)))

\* lines 462-483
DeduplicateAndFilter(subs) == SortByStart(FilterLoop(subs, 1, {}, <<>>))

NormInit ==
    /\ raw \in {ParsedEntries(cues) : cues \in CueLists}
    /\ normalized = <<>>
    /\ npc = "call"
    /\ FetchIdle
    /\ ConcIdle
    /\ ToolIdle
    /\ TextIdle
    /\ HttpIdle

\* lines 396 and 433: return deduplicateAndFilter(subtitles)
Normalize ==
    /\ npc = "call"
    /\ normalized' = DeduplicateAndFilter(raw)
    /\ npc' = "done"
    /\ UNCHANGED <<raw, fetchVars, concVars, toolVars, textVars, httpVars>>

NormNext == Normalize

NormSpec == NormInit /\ [][NormNext]_vars

(***************************************************************************)
(* Reading the input and the output of deduplicateAndFilter.               *)
(***************************************************************************)
\* the key of the claims: the text and floor(start * 10)
TextAndDecisecond(e) == <<e.text, e.start \div 100>>

\* the positions of the input whose duration is at least 0.1 seconds
Passing == {i \in 1..Len(raw) : raw[i].duration >= 100}

\* the first position of the input that passes the filter and has the key k
FirstPassing(k) ==
    CHOOSE i \in Passing :
        /\ TextAndDecisecond(raw[i]) = k
        /\ \A j \in Passing : TextAndDecisecond(raw[j]) = k => i <= j

\* the first position of the input that holds the entry e
FirstIndex(e) == CHOOSE i \in 1..Len(raw) : raw[i] = e /\ \A j \in 1..(i - 1) : raw[j] # e

Outputs == 1..Len(normalized)

(***************************************************************************)
(* C17: no two entries of the output share a (text, floor(start*10)) key,  *)
(* and the output holds, for each key of an input entry that passes the    *)
(* duration filter, the first such entry in input order.                   *)
(***************************************************************************)
C17_FirstOfEachKeyKept ==
    npc = "done" =>
        /\ \A i, j \in Outputs :
              i # j => TextAndDecisecond(normalized[i]) # TextAndDecisecond(normalized[j])
        /\ \A i \in Outputs :
              \E p \in Passing :
                  /\ normalized[i] = raw[p]
                  /\ p = FirstPassing(TextAndDecisecond(raw[p]))
        /\ \A p \in Passing :
              \E i \in Outputs : normalized[i] = raw[FirstPassing(TextAndDecisecond(raw[p]))]

C17_Witness ==
    /\ npc = "done"
    /\ Len(raw) = 3
    /\ Passing = {1, 2, 3}
    /\ TextAndDecisecond(raw[1]) = TextAndDecisecond(raw[3])
    /\ raw[1] # raw[3]
    /\ normalized = <<raw[1], raw[2]>>

(***************************************************************************)
(* C18: every entry the parsers return has a duration of at least 0.1      *)
(* seconds and a start that is not negative; a cue whose end is not later  *)
(* than its start is not in the output.                                    *)
(***************************************************************************)
C18_NoShortOrNegative ==
    npc = "done" =>
        /\ \A i \in Outputs : normalized[i].duration >= 100 /\ normalized[i].start >= 0
        /\ \A p \in 1..Len(raw) :
              raw[p].duration <= 0 => \A i \in Outputs : normalized[i] # raw[p]

C18_Witness ==
    /\ npc = "done"
    /\ \E p, q, r \in 1..Len(raw) :
          /\ raw[p].duration < 0
          /\ raw[q].duration = 50
          /\ raw[r].duration = 100
    /\ Len(normalized) = 1

(***************************************************************************)
(* C19: the output is sorted ascending by start, and output entries with   *)
(* the same start are in the order they have in the input.                 *)
(***************************************************************************)
C19_SortedAndStable ==
    npc = "done" =>
        \A i, j \in Outputs :
            i < j =>
                /\ normalized[i].start <= normalized[j].start
                /\ normalized[i].start = normalized[j].start =>
                      FirstIndex(normalized[i]) < FirstIndex(normalized[j])

C19_Witness ==
    /\ npc = "done"
    /\ Len(raw) = 3
    /\ Len(normalized) = 3
    /\ raw[1].start > raw[2].start
    /\ raw[2].start = raw[3].start
    /\ normalized = <<raw[2], raw[3], raw[1]>>

(***************************************************************************)
(* C20, as claimed: whatever the order in which the same input entries     *)
(* are supplied, the output list is the same.                              *)
(***************************************************************************)
Reordered(p) == [i \in 1..Len(raw) |-> raw[p[i]]]

C20_AsClaimed ==
    npc = "done" =>
        \A p \in Permutations(1..Len(raw)) : DeduplicateAndFilter(Reordered(p)) = normalized

\* among the entries that pass the duration filter, two that differ differ in their
\* start and in their key
NoTies ==
    \A i, j \in Passing :
        raw[i] # raw[j] =>
            /\ raw[i].start # raw[j].start
            /\ TextAndDecisecond(raw[i]) # TextAndDecisecond(raw[j])

(***************************************************************************)
(* C20, amended: the output list is the same for every order of the input  *)
(* if no two different entries that pass the duration filter have the same *)
(* start or the same key.                                                  *)
(***************************************************************************)
C20_SameOutputIfNoTies ==
    npc = "done" /\ NoTies =>
        \A p \in Permutations(1..Len(raw)) : DeduplicateAndFilter(Reordered(p)) = normalized

C20_Witness ==
    /\ npc = "done"
    /\ NoTies
    /\ Len(raw) = 3
    /\ Passing = {1, 2, 3}
    /\ raw[1].start > raw[2].start
    /\ raw[1] = raw[3]
    /\ normalized = <<raw[2], raw[1]>>

(***************************************************************************)
(* Functions on text.  A string is read one character at a time; the       *)
(* regular expressions of the source are the operators below.              *)
(***************************************************************************)
\* the largest number of pieces an input text is made of
MaxPieces == 4

Char(s, i) == IF i >= 1 /\ i <= Len(s) THEN SubSeq(s, i, i) ELSE ""

\* \d
IsDigit(c) == c \in {"0", "1", "2", "3", "4", "5", "6", "7", "8", "9"}

\* \s, and what trim() removes, among the characters of the inputs
IsSpace(c) == c \in {" ", "\t", "\n", "\r"}

\* what . does not match
IsLineTerminator(c) == c \in {"\n", "\r"}

\* the least of a set of positions, 0 if there is none
First(S) == IF S = {} THEN 0 ELSE CHOOSE i \in S : \A j \in S : i <= j

\* s.indexOf(c, from - 1) + 1: the first position from `from` on that holds c, 0 if none
IndexOf(s, c, from) == First({i \in from..Len(s) : Char(s, i) = c})

\* \d{2}:\d{2}:\d{2}<sep>\d{3} at position i of s (12 characters)
TimeAt(s, i, sep) ==
    /\ i + 11 <= Len(s)
    /\ \A k \in {0, 1, 3, 4, 6, 7, 9, 10, 11} : IsDigit(Char(s, i + k))
    /\ Char(s, i + 2) = ":"
    /\ Char(s, i + 5) = ":"
    /\ Char(s, i + 8) = sep

\* line 445: the end of a match of /<\d{2}:\d{2}:\d{2}\.\d{3}>/ at i, 0 if none
TimestampTagEnd(s, i) ==
    IF Char(s, i) = "<" /\ TimeAt(s, i + 1, ".") /\ Char(s, i + 13) = ">"
    THEN i + 13 ELSE 0

\* the first > from position j on that no line terminator comes before, 0 if none
LazyDotsTo(s, j) ==
    LET e == IndexOf(s, ">", j)
    IN IF e # 0 /\ \A k \in j..(e - 1) : ~IsLineTerminator(Char(s, k)) THEN e ELSE 0

\* line 447: the end of a match of /<\/?[c|v].*?>/ at i, 0 if none
VoiceTagEnd(s, i) ==
    IF Char(s, i) # "<" THEN 0
    ELSE LET j == IF Char(s, i + 1) = "/" THEN i + 2 ELSE i + 1
         IN IF Char(s, j) \in {"c", "|", "v"} THEN LazyDotsTo(s, j + 1) ELSE 0

\* line 449: the end of a match of /<[^>]*>/ at i, 0 if none
AnyTagEnd(s, i) == IF Char(s, i) = "<" THEN IndexOf(s, ">", i + 1) ELSE 0

\* the rest of s from position i on
Rest(s, i) == IF i > Len(s) THEN "" ELSE SubSeq(s, i, Len(s))

\* the characters i..(j - 1) of s
Before(s, i, j) == IF j <= i THEN "" ELSE SubSeq(s, i, j - 1)

\* s.replace(/.../g, "") for each of the three tag expressions, from position i on:
\* the leftmost match is removed and the scan goes on after it
RECURSIVE RemoveTimestampTags(_, _)
RemoveTimestampTags(s, i) ==
    LET m == First({k \in i..Len(s) : TimestampTagEnd(s, k) # 0})
    IN IF m = 0 THEN Rest(s, i)
       ELSE Before(s, i, m) \o RemoveTimestampTags(s, TimestampTagEnd(s, m) + 1)

RECURSIVE RemoveVoiceTags(_, _)
RemoveVoiceTags(s, i) ==
    LET m == First({k \in i..Len(s) : VoiceTagEnd(s, k) # 0})
    IN IF m = 0 THEN Rest(s, i)
       ELSE Before(s, i, m) \o RemoveVoiceTags(s, VoiceTagEnd(s, m) + 1)

RECURSIVE RemoveAnyTags(_, _)
RemoveAnyTags(s, i) ==
    LET m == First({k \in i..Len(s) : AnyTagEnd(s, k) # 0})
    IN IF m = 0 THEN Rest(s, i)
       ELSE Before(s, i, m) \o RemoveAnyTags(s, AnyTagEnd(s, m) + 1)

\* line 451: s.replace(/\s+/g, " "), from position i on: the leftmost run of white
\* space becomes one space and the scan goes on after it
RECURSIVE CollapseSpaces(_, _)
CollapseSpaces(s, i) ==
    LET m == First({k \in i..Len(s) : IsSpace(Char(s, k))})
        e == First({k \in m..(Len(s) + 1) : ~IsSpace(Char(s, k))})
    IN IF m = 0 THEN Rest(s, i)
       ELSE Before(s, i, m) \o " " \o CollapseSpaces(s, e)

RECURSIVE TrimStart(_)
TrimStart(s) ==
    IF s # "" /\ IsSpace(Char(s, 1)) THEN TrimStart(SubSeq(s, 2, Len(s))) ELSE s

RECURSIVE TrimEnd(_)
TrimEnd(s) ==
    IF s # "" /\ IsSpace(Char(s, Len(s))) THEN TrimEnd(SubSeq(s, 1, Len(s) - 1)) ELSE s

\* s.trim()
Trim(s) == TrimEnd(TrimStart(s))

\* the spaces cleaned up before the tags are removed
CleanSubtitleTextSpacesFirst(text) ==
    Trim(RemoveAnyTags(RemoveVoiceTags(RemoveTimestampTags(
        CollapseSpaces(text, 1), 1), 1), 1))

\* lines 441-455
CleanSubtitleText(text) ==
    Trim(CollapseSpaces(RemoveAnyTags(RemoveVoiceTags(RemoveTimestampTags(text, 1), 1), 1), 1))

\* the pieces the input texts of cleanSubtitleText are made of
TextPieces == {"<", ">", "/", "c", "<c>", " x", "x ", "\n", "<00:00:01.000>"}

RECURSIVE Concat(_)
Concat(list) == IF list = <<>> THEN "" ELSE Head(list) \o Concat(Tail(list))

Texts == {Concat(ps) : ps \in UNION {[1..n -> TextPieces] : n \in 0..MaxPieces}}

CleanInit ==
    /\ input \in Texts
    /\ result = NoCompletion
    /\ ppc = "call"
    /\ FetchIdle
    /\ NormIdle
    /\ ConcIdle
    /\ ToolIdle
    /\ HttpIdle

Clean ==
    /\ ppc = "call"
    /\ result' = Return(CleanSubtitleText(input))
    /\ ppc' = "done"
    /\ UNCHANGED <<input, fetchVars, normVars, concVars, toolVars, httpVars>>

CleanNext == Clean

CleanSpec == CleanInit /\ [][CleanNext]_vars

(***************************************************************************)
(* C21: cleanSubtitleText applied to its own result returns that result.   *)
(***************************************************************************)
C21_CleanIdempotent ==
    ppc = "done" => CleanSubtitleText(result.value) = result.value

C21_Witness ==
    /\ ppc = "done"
    /\ input = "x <c> x\n"
    /\ result.value = "x x"

(***************************************************************************)
(* timeToSeconds (lines 490-501).  A number is counted in milliseconds, a  *)
(* thousandth of the unit of the source, or is NaN.                        *)
(***************************************************************************)
\* the largest number of pieces a time string is made of
MaxTimePieces == 3

NaN == [nan |-> TRUE, ms |-> 0]
Seconds(ms) == [nan |-> FALSE, ms |-> ms]

\* s.substring(i - 1, j): the characters i..j of s that exist
SubString(s, i, j) ==
    IF i > Len(s) \/ j < i THEN "" ELSE SubSeq(s, i, IF j > Len(s) THEN Len(s) ELSE j)

\* s.startsWith(t)
StartsWith(s, t) == Len(s) >= Len(t) /\ SubSeq(s, 1, Len(t)) = t

\* s.split(sep), sep not empty: the pieces of s from position i on
RECURSIVE SplitFrom(_, _, _)
SplitFrom(s, sep, i) ==
    LET m == First({k \in i..Len(s) : SubString(s, k, k + Len(sep) - 1) = sep})
    IN IF m = 0 THEN <<Rest(s, i)>>
       ELSE <<Before(s, i, m)>> \o SplitFrom(s, sep, m + Len(sep))

Split(s, sep) == SplitFrom(s, sep, 1)

DigitValue(c) ==
    CASE c = "0" -> 0 [] c = "1" -> 1 [] c = "2" -> 2 [] c = "3" -> 3 [] c = "4" -> 4
      [] c = "5" -> 5 [] c = "6" -> 6 [] c = "7" -> 7 [] c = "8" -> 8 [] c = "9" -> 9

\* the position after the digits that start at position i of s
RECURSIVE DigitsEnd(_, _)
DigitsEnd(s, i) == IF IsDigit(Char(s, i)) THEN DigitsEnd(s, i + 1) ELSE i

\* the decimal number written at positions i..(j - 1) of s
RECURSIVE DigitsValue(_, _, _)
DigitsValue(s, i, j) ==
    IF j <= i THEN 0 ELSE 10 * DigitsValue(s, i, j - 1) + DigitValue(Char(s, j - 1))

\* the thousandths written by the decimals at positions i..(j - 1) of s
Thousandths(s, i, j) ==
    LET d(k) == IF i + k < j THEN DigitValue(Char(s, i + k)) ELSE 0
    IN 100 * d(0) + 10 * d(1) + d(2)

\* parseInt(str, 10): leading white space, a sign, then the digits at the front
ParseInt(str) ==
    LET t == TrimStart(str)
        signed == Char(t, 1) \in {"+", "-"}
        from == IF signed THEN 2 ELSE 1
        to == DigitsEnd(t, from)
    IN IF to = from THEN NaN
       ELSE Seconds((IF Char(t, 1) = "-" THEN -1000 ELSE 1000) * DigitsValue(t, from, to))

\* parseFloat(str): leading white space, a sign, digits, a point and decimals
ParseFloat(str) ==
    LET t == TrimStart(str)
        signed == Char(t, 1) \in {"+", "-"}
        from == IF signed THEN 2 ELSE 1
        to == DigitsEnd(t, from)
        frac == IF Char(t, to) = "." THEN DigitsEnd(t, to + 1) ELSE to
    IN IF to = from /\ frac <= to + 1 THEN NaN
       ELSE Seconds((IF Char(t, 1) = "-" THEN -1 ELSE 1)
                    * (1000 * DigitsValue(t, from, to) + Thousandths(t, to + 1, frac)))

\* a * k + ..., NaN if a term is
Sum3(a, b, c) ==
    IF a.nan \/ b.nan \/ c.nan THEN NaN ELSE Seconds(a.ms + b.ms + c.ms)

Times(a, k) == IF a.nan THEN NaN ELSE Seconds(a.ms * k)

\* a function that never checks the number of fields
timeToSecondsUnchecked(timeString) ==
    LET parts == Split(timeString, ":") \o <<"", "">>
    IN Return(Sum3(Times(ParseInt(parts[1]), 3600), Times(ParseInt(parts[2]), 60),
                   ParseFloat(parts[3])))

\* lines 490-501
timeToSeconds(timeString) ==
    LET parts == Split(timeString, ":")
    IN IF Len(parts) # 3
       THEN Throw(RawError("Error", "Invalid time format: " \o timeString))
       ELSE Return(Sum3(Times(ParseInt(parts[1]), 3600), Times(ParseInt(parts[2]), 60),
                        ParseFloat(parts[3])))

\* timeMatch[1] and timeMatch[2] of /^(T) --> (T)/ with the decimal separator sep,
\* <<>> if the line does not match (lines 363-365 and 415-417)
TimeMatch(line, sep) ==
    IF TimeAt(line, 1, sep) /\ SubString(line, 13, 17) = " --> " /\ TimeAt(line, 18, sep)
    THEN <<SubSeq(line, 1, 12), SubSeq(line, 18, 29)>>
    ELSE <<>>

\* timeMatch[k].replace(",", "."): the first comma only
ReplaceComma(s) ==
    LET m == IndexOf(s, ",", 1)
    IN IF m = 0 THEN s ELSE Before(s, 1, m) \o "." \o Rest(s, m + 1)

TimePieces ==
    {"00:00:01.000", "00:01:03.500", "00:00:01,000", "01:02:03,500", " --> ", ":", "00",
     "7.5", "x"}

TimeStrings == {Concat(ps) : ps \in UNION {[1..n -> TimePieces] : n \in 0..MaxTimePieces}}

TimeInit ==
    /\ input \in TimeStrings
    /\ result = NoCompletion
    /\ ppc = "call"
    /\ FetchIdle
    /\ NormIdle
    /\ ConcIdle
    /\ ToolIdle
    /\ HttpIdle

\* timeToSeconds called on the string itself
TimeDirect ==
    /\ ppc = "call"
    /\ result' = timeToSeconds(input)
    /\ ppc' = "direct"
    /\ UNCHANGED <<input, fetchVars, normVars, concVars, toolVars, httpVars>>

\* lines 363-383: parseVTT meets the string as a line; the start time of the cue
TimeFromVTT ==
    /\ ppc = "call"
    /\ TimeMatch(Trim(input), ".") # <<>>
    /\ LET timeMatch == TimeMatch(Trim(input), ".")
           start == timeToSeconds(timeMatch[1])
           end == timeToSeconds(timeMatch[2])
       IN result' = IF start.kind = "throw" THEN start
                    ELSE IF end.kind = "throw" THEN end
                    ELSE start
    /\ ppc' = "vtt"
    /\ UNCHANGED <<input, fetchVars, normVars, concVars, toolVars, httpVars>>

\* lines 415-420: parseSRT meets the string as the second line of a block
TimeFromSRT ==
    /\ ppc = "call"
    /\ TimeMatch(input, ",") # <<>>
    /\ LET timeMatch == TimeMatch(input, ",")
           startTime == timeToSeconds(ReplaceComma(timeMatch[1]))
           endTime == timeToSeconds(ReplaceComma(timeMatch[2]))
       IN result' = IF startTime.kind = "throw" THEN startTime
                    ELSE IF endTime.kind = "throw" THEN endTime
                    ELSE startTime
    /\ ppc' = "srt"
    /\ UNCHANGED <<input, fetchVars, normVars, concVars, toolVars, httpVars>>

TimeNext ==
    \/ TimeDirect
    \/ TimeFromVTT
    \/ TimeFromSRT

TimeSpec == TimeInit /\ [][TimeNext]_vars

\* the number of colons of s
Colons(s) == Cardinality({i \in 1..Len(s) : Char(s, i) = ":"})

\* HH:MM:SS.mmm read digit by digit, in milliseconds
ReadByDigits(s) ==
    LET d(k) == DigitValue(Char(s, k))
    IN (10 * d(1) + d(2)) * 3600000 + (10 * d(4) + d(5)) * 60000
           + (10 * d(7) + d(8)) * 1000 + 100 * d(10) + 10 * d(11) + d(12)

(***************************************************************************)
(* C25: timeToSeconds throws if and only if its argument does not have     *)
(* exactly three fields between colons; on HH:MM:SS.mmm it returns         *)
(* hours*3600 + minutes*60 + seconds; and the calls the two parsers make   *)
(* on a matched timing line never throw.                                   *)
(***************************************************************************)
C25_ThrowsIffNotThreeFields ==
    /\ ppc = "direct" =>
          /\ result.kind = "throw" <=> Colons(input) # 2
          /\ result.kind = "throw" =>
                result.error.message = "Invalid time format: " \o input
          /\ TimeAt(input, 1, ".") /\ Len(input) = 12 =>
                result = Return(Seconds(ReadByDigits(input)))
    /\ ppc \in {"vtt", "srt"} =>
          /\ result.kind = "return"
          /\ result.value = Seconds(ReadByDigits(input))

C25_Witness ==
    /\ ppc = "direct"
    /\ input = "00:01:03.500"
    /\ result = Return(Seconds(63500))

(***************************************************************************)
(* parseVTT (lines 345-396).                                               *)
(***************************************************************************)
\* the largest number of lines of a subtitle file
MaxLines == 4

\* let currentSubtitle = null
NoCue == [open |-> FALSE, start |-> 0, end |-> 0, text |-> ""]

\* lines 372-376 and 389-393: the entry pushed for the block cur
PushedEntry(cur) ==
    [text |-> CleanSubtitleText(Trim(cur.text)),
     start |-> cur.start,
     duration |-> cur.end - cur.start]

\* lines 370-377 and 387-394: cur is pushed if it is a block with a text
Flushed(cur, subs) ==
    IF cur.open /\ Trim(cur.text) # "" THEN Append(subs, PushedEntry(cur)) ELSE subs

\* line 384: currentSubtitle && line && !line.includes("-->")
AddsTextLine(cur, line) == cur.open /\ line # "" /\ ~Includes(line, "-->")

\* a loop that forgets the block open at the end of the input
RECURSIVE VttLoopDropsLast(_, _, _, _)
VttLoopDropsLast(lines, i, cur, subs) ==
    IF i > Len(lines) THEN subs
    ELSE LET line == lines[i]
             timeMatch == TimeMatch(line, ".")
         IN IF StartsWith(line, "WEBVTT") \/ line = ""
            THEN VttLoopDropsLast(lines, i + 1, cur, subs)
            ELSE IF timeMatch # <<>>
            THEN VttLoopDropsLast(lines, i + 1,
                         [open |-> TRUE,
                          start |-> timeToSeconds(timeMatch[1]).value.ms,
                          end |-> timeToSeconds(timeMatch[2]).value.ms,
                          text |-> ""],
                         Flushed(cur, subs))
            ELSE IF AddsTextLine(cur, line)
            THEN VttLoopDropsLast(lines, i + 1,
                         [cur EXCEPT !.text = @ \o (IF @ # "" THEN " " ELSE "") \o line],
                         subs)
            ELSE VttLoopDropsLast(lines, i + 1, cur, subs)

\* lines 351-394: the loop over the lines and the flush after it; i is the position,
\* cur is currentSubtitle, subs is subtitles
RECURSIVE VttLoop(_, _, _, _)
VttLoop(lines, i, cur, subs) ==
    IF i > Len(lines) THEN Flushed(cur, subs)
    ELSE LET line == lines[i]
             timeMatch == TimeMatch(line, ".")
         IN IF StartsWith(line, "WEBVTT") \/ line = ""
            THEN VttLoop(lines, i + 1, cur, subs)
            ELSE IF timeMatch # <<>>
            THEN VttLoop(lines, i + 1,
                         [open |-> TRUE,
                          start |-> timeToSeconds(timeMatch[1]).value.ms,
                          end |-> timeToSeconds(timeMatch[2]).value.ms,
                          text |-> ""],
                         Flushed(cur, subs))
            ELSE IF AddsTextLine(cur, line)
            THEN VttLoop(lines, i + 1,
                         [cur EXCEPT !.text = @ \o (IF @ # "" THEN " " ELSE "") \o line],
                         subs)
            ELSE VttLoop(lines, i + 1, cur, subs)

\* line 346: vttContent.split("\n").map((line) => line.trim())
TrimmedLines(content) ==
    LET lines == Split(content, "\n") IN [i \in 1..Len(lines) |-> Trim(lines[i])]

\* lines 346-394: the list subtitles before it is passed to deduplicateAndFilter
VttEntries(vttContent) == VttLoop(TrimmedLines(vttContent), 1, NoCue, <<>>)

\* lines 345-396
ParseVTT(vttContent) == DeduplicateAndFilter(VttEntries(vttContent))

\* the lines the files are made of
VttLines ==
    {"WEBVTT", "", "00:00:01.000 --> 00:00:03.500",
     "  00:00:03.500 --> 00:01:03.500 align:start", "Hello <c>world</c>", "x", "<c></c>",
     "00:00:05 --> 00:00:06"}

VttFiles == {Join(ls, "\n") : ls \in UNION {[1..n -> VttLines] : n \in 0..MaxLines}}

VttInit ==
    /\ input \in VttFiles
    /\ result = NoCompletion
    /\ ppc = "call"
    /\ FetchIdle
    /\ NormIdle
    /\ ConcIdle
    /\ ToolIdle
    /\ HttpIdle

\* raw is the list subtitles of parseVTT, normalized what deduplicateAndFilter makes of it
ParseVttFile ==
    /\ ppc = "call"
    /\ raw' = VttEntries(input)
    /\ normalized' = DeduplicateAndFilter(raw')
    /\ result' = Return(normalized')
    /\ ppc' = "done"
    /\ UNCHANGED <<input, npc, fetchVars, concVars, toolVars, httpVars>>

VttNext == ParseVttFile

VttSpec == VttInit /\ [][VttNext]_vars

(***************************************************************************)
(* Reading a subtitle file line by line; ls is the list of its lines.      *)
(***************************************************************************)
IsTiming(line) == TimeMatch(line, ".") # <<>>

\* the position of the first timing line from position i on, or the end of the file
RECURSIVE BlockEnd(_, _)
BlockEnd(ls, i) ==
    IF i > Len(ls) \/ IsTiming(ls[i]) THEN i ELSE BlockEnd(ls, i + 1)

\* a line that is neither blank, nor a header, nor one that holds an arrow
IsTextLine(line) == line # "" /\ ~StartsWith(line, "WEBVTT") /\ ~Includes(line, "-->")

\* the lines at the positions i..(j - 1) that are not in skip, joined by single spaces
RECURSIVE TextBetween(_, _, _, _)
TextBetween(ls, i, j, skip) ==
    IF i >= j THEN ""
    ELSE LET rest == TextBetween(ls, i + 1, j, skip)
         IN IF ~IsTextLine(ls[i]) \/ i \in skip THEN rest
            ELSE IF rest = "" THEN ls[i]
            ELSE ls[i] \o " " \o rest

\* the entry of the block opened by the timing line
BlockEntry(line, text) ==
    [text |-> CleanSubtitleText(text),
     start |-> ReadByDigits(line),
     duration |-> ReadByDigits(SubSeq(line, 18, 29)) - ReadByDigits(line)]

\* one entry for each timing line from position i on whose block has a text, in order;
\* the lines at the positions in skip are left out of the texts
RECURSIVE EntriesOfBlocks(_, _, _)
EntriesOfBlocks(ls, i, skip) ==
    IF i > Len(ls) THEN <<>>
    ELSE LET text == TextBetween(ls, i + 1, BlockEnd(ls, i + 1), skip)
         IN IF IsTiming(ls[i]) /\ text # ""
            THEN <<BlockEntry(ls[i], text)>> \o EntriesOfBlocks(ls, i + 1, skip)
            ELSE EntriesOfBlocks(ls, i + 1, skip)

(***************************************************************************)
(* C22: the entries parseVTT collects are, in order, one for each timing   *)
(* line whose block has a text: the block runs to the next timing line or  *)
(* to the end of the file, lines before the first timing line belong to no *)
(* block, and the entry has the start of the timing line, duration = end - *)
(* start and the cleaned text lines joined by single spaces.               *)
(***************************************************************************)
C22_OneEntryPerBlock ==
    ppc = "done" =>
        /\ raw = EntriesOfBlocks(TrimmedLines(input), 1, {})
        /\ result = Return(DeduplicateAndFilter(raw))

C22_Witness ==
    /\ ppc = "done"
    /\ input = "WEBVTT\n\n00:00:01.000 --> 00:00:03.500\nHello <c>world</c>"
    /\ raw = <<[text |-> "Hello world", start |-> 1000, duration |-> 2500]>>
    /\ result.value = raw

\* the position after the lines that follow position i up to a blank line or an arrow
RECURSIVE SpanEnd(_, _)
SpanEnd(ls, i) ==
    IF i > Len(ls) \/ ls[i] = "" \/ Includes(ls[i], "-->") THEN i ELSE SpanEnd(ls, i + 1)

\* a line that holds an arrow and does not match the timing pattern
IsMalformedTiming(line) == Includes(line, "-->") /\ ~IsTiming(line)

\* the positions of the text lines of the cues whose timing line is malformed
MalformedSpans(ls) ==
    {j \in 1..Len(ls) :
        \E i \in 1..(j - 1) :
            IsMalformedTiming(ls[i]) /\ j < SpanEnd(ls, i + 1) /\ IsTextLine(ls[j])}

(***************************************************************************)
(* C24: a cue whose timing line holds an arrow but does not match the      *)
(* timing pattern leaves no trace: the entries are those of the file with  *)
(* the text lines of that cue taken out, the entry of the cue before it    *)
(* included.                                                               *)
(***************************************************************************)
C24_MalformedSpanDropped ==
    ppc = "done" =>
        LET ls == TrimmedLines(input)
        IN raw = EntriesOfBlocks(ls, 1, MalformedSpans(ls))

(***************************************************************************)
(* parseSRT (lines 403-434).                                               *)
(***************************************************************************)
\* the largest number of pieces an SRT file is made of
MaxBlocks == 4

\* lines 411-429: the entries a block adds to subtitles: none or one
SrtBlockEntries(block) ==
    LET lines == Split(block, "\n")
        timeMatch == TimeMatch(lines[2], ",")
        text == Trim(Join(SubSeq(lines, 3, Len(lines)), " "))
    IN IF Len(lines) < 3 THEN <<>>
       ELSE IF timeMatch = <<>> THEN <<>>
       ELSE IF text = "" THEN <<>>
       ELSE LET startTime == timeToSeconds(ReplaceComma(timeMatch[1])).value.ms
                endTime == timeToSeconds(ReplaceComma(timeMatch[2])).value.ms
            IN <<[text |-> CleanSubtitleText(text),
                  start |-> startTime,
                  duration |-> endTime - startTime]>>

\* a loop that a block without an entry ends
RECURSIVE SrtLoopStopsAtSkippedBlock(_, _, _)
SrtLoopStopsAtSkippedBlock(blocks, i, subs) ==
    IF i > Len(blocks) THEN subs
    ELSE IF SrtBlockEntries(blocks[i]) = <<>> THEN subs
    ELSE SrtLoopStopsAtSkippedBlock(blocks, i + 1, subs \o SrtBlockEntries(blocks[i]))

\* lines 407-431: for (const block of blocks)
RECURSIVE SrtLoop(_, _, _)
SrtLoop(blocks, i, subs) ==
    IF i > Len(blocks) THEN subs
    ELSE SrtLoop(blocks, i + 1, subs \o SrtBlockEntries(blocks[i]))

\* line 404: srtContent.trim().split("\n\n")
SrtBlocks(srtContent) == Split(Trim(srtContent), "\n\n")

\* lines 404-431: the list subtitles before it is passed to deduplicateAndFilter
SrtEntries(srtContent) == SrtLoop(SrtBlocks(srtContent), 1, <<>>)

\* lines 403-434
ParseSRT(srtContent) == DeduplicateAndFilter(SrtEntries(srtContent))

\* the pieces the files are made of
SrtPieces ==
    {"1\n00:00:00,000 --> 00:00:02,000\nLine one",
     "2\n00:00:02,000 --> 00:00:02,050\nLine two",
     "3\n00:00:01.000 --> 00:00:03.500\nx",
     "4\n00:00:05,000 --> 00:00:06,000",
     "\n", "<i>x</i>", " "}

SrtFiles == {Concat(ps) : ps \in UNION {[1..n -> SrtPieces] : n \in 0..MaxBlocks}}

SrtInit ==
    /\ input \in SrtFiles
    /\ result = NoCompletion
    /\ ppc = "call"
    /\ FetchIdle
    /\ NormIdle
    /\ ConcIdle
    /\ ToolIdle
    /\ HttpIdle

\* raw is the list subtitles of parseSRT, normalized what deduplicateAndFilter makes of it
ParseSrtFile ==
    /\ ppc = "call"
    /\ raw' = SrtEntries(input)
    /\ normalized' = DeduplicateAndFilter(raw')
    /\ result' = Return(normalized')
    /\ ppc' = "done"
    /\ UNCHANGED <<input, npc, fetchVars, concVars, toolVars, httpVars>>

SrtNext == ParseSrtFile

SrtSpec == SrtInit /\ [][SrtNext]_vars

\* the block has at least three lines, a second line that matches the comma-decimal
\* timing pattern and a text that is not empty
Yields(block) ==
    LET ls == Split(block, "\n")
    IN /\ Len(ls) >= 3
       /\ TimeMatch(ls[2], ",") # <<>>
       /\ Trim(Join(SubSeq(ls, 3, Len(ls)), " ")) # ""

(***************************************************************************)
(* C23: parseSRT never throws, and the entries it collects are, in order,  *)
(* one for each block that has at least three lines, a second line         *)
(* matching the comma-decimal timing pattern and a text that is not empty; *)
(* the other blocks add nothing and change no entry of another block.      *)
(***************************************************************************)
C23_EntryIffWellFormedBlock ==
    ppc = "done" =>
        LET blocks == SrtBlocks(input)
            yielding == {k \in 1..Len(blocks) : Yields(blocks[k])}
        IN /\ result.kind = "return"
           /\ Len(raw) = Cardinality(yielding)
           /\ \A k \in yielding :
                 LET ls == Split(blocks[k], "\n")
                     n == Cardinality({j \in yielding : j <= k})
                 IN /\ raw[n].start = ReadByDigits(ls[2])
                    /\ raw[n].duration =
                           ReadByDigits(SubSeq(ls[2], 18, 29)) - ReadByDigits(ls[2])
                    /\ raw[n].text =
                           CleanSubtitleText(Trim(Join(SubSeq(ls, 3, Len(ls)), " ")))

C23_Witness ==
    /\ ppc = "done"
    /\ input = "1\n00:00:00,000 --> 00:00:02,000\nLine one\n\n"
                   \o "2\n00:00:02,000 --> 00:00:02,050\nLine two"
    /\ Len(raw) = 2
    /\ result.value = <<[text |-> "Line one", start |-> 0, duration |-> 2000]>>

(***************************************************************************)
(* formatTime of build/index.old.js (lines 178-190) applied to what        *)
(* timeToSeconds returns, and timeToSeconds applied to the result.         *)
(***************************************************************************)
\* n.toString().padStart(2, "0")
PadStart2(n) == IF n < 10 THEN "0" \o ToString(n) ELSE ToString(n)

\* a formatter that always writes the hours
formatTimeWithHours(seconds) ==
    LET hours == seconds.ms \div 3600000
        minutes == (seconds.ms % 3600000) \div 60000
        secs == (seconds.ms % 60000) \div 1000
    IN PadStart2(hours) \o ":" \o PadStart2(minutes) \o ":" \o PadStart2(secs)

\* index.old.js lines 178-190: Math.floor of the hours, of the minutes and of the seconds
formatTime(seconds) ==
    LET hours == seconds.ms \div 3600000
        minutes == (seconds.ms % 3600000) \div 60000
        secs == (seconds.ms % 60000) \div 1000
    IN IF hours > 0
       THEN PadStart2(hours) \o ":" \o PadStart2(minutes) \o ":" \o PadStart2(secs)
       ELSE PadStart2(minutes) \o ":" \o PadStart2(secs)

\* the valid strings HH:MM:SS.mmm
ValidTimes ==
    {hh \o ":" \o mm \o ":" \o ss \o "." \o mmm :
        hh \in {"00", "01", "99"}, mm \in {"00", "59", "99"}, ss \in {"00", "01", "59"},
        mmm \in {"000", "001", "500", "999"}}

RoundTripInit ==
    /\ input \in ValidTimes
    /\ result = NoCompletion
    /\ ppc = "call"
    /\ FetchIdle
    /\ NormIdle
    /\ ConcIdle
    /\ ToolIdle
    /\ HttpIdle

\* timeToSeconds(formatTime(timeToSeconds(input)))
RoundTrip ==
    /\ ppc = "call"
    /\ result' = timeToSeconds(formatTime(timeToSeconds(input).value))
    /\ ppc' = "done"
    /\ UNCHANGED <<input, fetchVars, normVars, concVars, toolVars, httpVars>>

RoundTripNext == RoundTrip

RoundTripSpec == RoundTripInit /\ [][RoundTripNext]_vars

\* the milliseconds timeToSeconds makes of the input
Parsed1 == timeToSeconds(input).value.ms

(***************************************************************************)
(* C26, as claimed: parsing, formatting and parsing again gives the value  *)
(* of the first parse within a millisecond.                                *)
(***************************************************************************)
C26_AsClaimed ==
    ppc = "done" =>
        /\ result.kind = "return"
        /\ ~result.value.nan
        /\ result.value.ms - Parsed1 \in -1..1

(***************************************************************************)
(* C26, amended: formatTime drops the milliseconds and, below one hour,    *)
(* the hours field.  From 3600 seconds on the second parse gives the value *)
(* of the first rounded down to a whole second; below 3600 seconds         *)
(* formatTime writes MM:SS, which timeToSeconds rejects.                   *)
(***************************************************************************)
C26_WholeSecondsFromOneHour ==
    ppc = "done" =>
        IF Parsed1 >= 3600000
        THEN result = Return(Seconds(Parsed1 - (Parsed1 % 1000)))
        ELSE /\ result.kind = "throw"
             /\ result.error.message = "Invalid time format: " \o formatTime(Seconds(Parsed1))

C26_Witness ==
    /\ ppc = "done"
    /\ input = "01:59:59.999"
    /\ result = Return(Seconds(7199000))

(***************************************************************************)
(* C27: fetchSubtitles never returns an empty list: after an attempt whose *)
(* file parsed to no entry the call goes on to the next candidate          *)
(* language, or fails because none is left.                                *)
(***************************************************************************)
C27_NeverEmptySuccess ==
    /\ pending.kind = "return" => Len(pending.value) > 0
    /\ outcome.kind = "return" => Len(outcome.value) > 0
    /\ \A i \in Positions("result") :
          log[i].aux = "empty" =>
              /\ i = Len(log) => pc \in {"loop", "finally"}
              /\ i < Len(log) =>
                    \/ /\ log[i + 1].op = "download"
                       /\ log[i + 1].arg # log[i].arg
                       /\ \E k \in 1..(Len(languagesToTry) - 1) :
                             /\ languagesToTry[k] = log[i].arg
                             /\ languagesToTry[k + 1] = log[i + 1].arg
                    \/ /\ log[i + 1].op = "rm"
                       /\ log[i].arg = languagesToTry[Len(languagesToTry)]
              /\ log[i].arg = languagesToTry[Len(languagesToTry)] /\ pc \in {"finally", "done"}
                    => IsExhaustion(pending)

C27_Witness ==
    /\ pc = "done"
    /\ \E i \in Positions("result") : log[i].aux = "empty" /\ log[i].arg = "en"
    /\ \E i \in Positions("result") : log[i].aux = "nonempty" /\ log[i].arg = "hi"
    /\ outcome.kind = "return"
    /\ Len(outcome.value) > 0

(***************************************************************************)
(* C28: a yt-dlp command carries a --cookies argument only if cookies were *)
(* asked for and the cookie file was written into the working directory of *)
(* the call before the command started; the cookies are fetched at most    *)
(* once, and every command of the call carries the same argument.          *)
(***************************************************************************)
C28_CookieArgumentOnlyIfWritten ==
    /\ \A d \in Positions("download") :
          log[d].aux # "" =>
              /\ useCookies
              /\ log[d].aux = PathJoin(TempDir, "cookies.txt")
              /\ \E w \in Positions("cookieWrite") :
                    w < d /\ log[w].aux = "ok" /\ log[w].arg = log[d].aux
    /\ Cardinality(Positions("cookieFetch")) <= 1
    /\ \A d1, d2 \in Positions("download") : log[d1].aux = log[d2].aux

C28_Witness ==
    /\ pc = "done"
    /\ Cardinality(Positions("download")) = 2
    /\ \A d \in Positions("download") : log[d].aux = PathJoin(TempDir, "cookies.txt")
    /\ Cardinality(Positions("cookieFetch")) = 1

(***************************************************************************)
(* C29: a tool call with lang "" makes the call of fetchSubtitles that a   *)
(* tool call without lang makes; its candidate languages are "en" then     *)
(* "hi", and no tool call has an empty candidate language.                 *)
(***************************************************************************)
\* the positional call of fetchSubtitles that getSubtitles makes
FetchCallMade ==
    [p |-> fetchCall[1], obj |-> NoParams, languageCode |-> fetchCall[2],
     options |-> NoOptions]

C29_EmptyLangIsAbsentLang ==
    tpc \in {"fetching", "done"} =>
        LET candidates == LanguagesToTry(UnpackedLang(FetchCallMade))
        IN /\ toolArgs.lang \in {Undefined, Str("")} =>
                 /\ fetchCall = <<Str(toolArgs.videoID), Undefined>>
                 /\ candidates = <<"en", "hi">>
           /\ \A k \in 1..Len(candidates) : candidates[k] # ""

C29_Witness ==
    /\ tpc = "done"
    /\ toolArgs.lang = Str("")
    /\ fetchCall[2] = Undefined
    /\ fetched.kind = "return"

(***************************************************************************)
(* POST /mcp (src/index.ts lines 94-121): each request gets a fresh server *)
(* and a fresh transport; the listener that closes them is registered on   *)
(* the response only after handleRequest has resolved.                     *)
(***************************************************************************)
HttpInit ==
    /\ HttpIdle
    /\ FetchIdle
    /\ NormIdle
    /\ ConcIdle
    /\ ToolIdle
    /\ TextIdle

HttpUnchanged == UNCHANGED <<fetchVars, normVars, concVars, toolVars, textVars>>

\* lines 94-101: the request arrives; getServer() and new StreamableHTTPServerTransport
HttpCreate(r) ==
    /\ http[r].pc = "idle"
    /\ http' = [http EXCEPT ![r].pc = "connect"]
    /\ HttpUnchanged

\* line 102: await server.connect(transport) resolves, or rejects into the catch
HttpConnect(r) ==
    /\ http[r].pc = "connect"
    /\ \E ok \in BOOLEAN :
          http' = [http EXCEPT ![r].pc = IF ok THEN "handle" ELSE "catch"]
    /\ HttpUnchanged

\* line 103: await transport.handleRequest(req, res, req.body) resolves, or rejects
\* into the catch; the response headers may or may not have been written by then
HttpHandle(r) ==
    /\ http[r].pc = "handle"
    /\ \E ok \in BOOLEAN, sent \in BOOLEAN :
          http' = [http EXCEPT ![r].pc = IF ok THEN "register" ELSE "catch",
                               ![r].headersSent = @ \/ sent]
    /\ HttpUnchanged

\* lines 104-108: res.on("close", ...) registers the listener
HttpRegister(r) ==
    /\ http[r].pc = "register"
    /\ http' = [http EXCEPT ![r].pc = "done", ![r].listener = TRUE]
    /\ HttpUnchanged

\* lines 109-120: the catch block answers 500 unless the headers were sent
HttpCatch(r) ==
    /\ http[r].pc = "catch"
    /\ http' = [http EXCEPT ![r].pc = "done", ![r].headersSent = TRUE]
    /\ HttpUnchanged

\* the response emits "close" (it was finished, or the client went away) once, at
\* any time after the request arrived; lines 104-108: a registered listener then
\* runs transport.close() and server.close()
ResClose(r) ==
    /\ http[r].pc # "idle"
    /\ ~http[r].resClosed
    /\ http' = [http EXCEPT ![r].resClosed = TRUE,
                            ![r].transportClosed = @ \/ http[r].listener,
                            ![r].serverClosed = @ \/ http[r].listener]
    /\ HttpUnchanged

HttpNext ==
    \E r \in Requests :
       \/ HttpCreate(r)
       \/ HttpConnect(r)
       \/ HttpHandle(r)
       \/ HttpRegister(r)
       \/ HttpCatch(r)
       \/ ResClose(r)

\* the event loop runs every continuation of the handler, and the response of a
\* request that arrived closes in the end
HttpFairness ==
    \A r \in Requests :
       /\ WF_vars(HttpConnect(r))
       /\ WF_vars(HttpHandle(r))
       /\ WF_vars(HttpRegister(r))
       /\ WF_vars(HttpCatch(r))
       /\ WF_vars(ResClose(r))

HttpSpec == HttpInit /\ [][HttpNext]_vars /\ HttpFairness

(***************************************************************************)
(* C30: once the response of a POST /mcp request has closed, the           *)
(* transport and the server created for that request are eventually        *)
(* closed.                                                                 *)
(***************************************************************************)
C30_ClosedOnceResponseCloses ==
    \A r \in Requests :
       http[r].resClosed ~> (http[r].transportClosed /\ http[r].serverClosed)

====
